---- MODULE Spec2Model ----
(***************************************************************************)
(* A model of scraper.py: URL canonicalisation (_standard_url), the crawl  *)
(* policy (is_valid), link extraction (extract_next_links), the content    *)
(* analysis of scraper() over the module-level aggregate tables, and the   *)
(* snapshot persistence (_load_stats / _save_stats).                       *)
(*                                                                         *)
(* Python str values are TLA+ strings; a character is a string of length 1.*)
(* None is modelled by the empty string wherever the code can never hold   *)
(* an empty str in that place (a canonical URL always starts "http").      *)
(***************************************************************************)
EXTENDS Integers, Sequences, FiniteSets, TLC

(***************************************************************************)
(* str helpers                                                             *)
(***************************************************************************)
None == ""

\* F applied to the value of v: v is evaluated once, whatever F does with it
With(v, F(_)) == CHOOSE r \in {F(x) : x \in {v}} : TRUE

CharAt(s, i) == SubSeq(s, i, i)

\* s[i-1:] for a 1-based i
From(s, i) == SubSeq(s, i, Len(s))

\* s[:i-1] for a 1-based i
Before(s, i) == SubSeq(s, 1, i - 1)

\* 1-based index of the first occurrence of sub in s at or after position i,
\* 0 when there is none (str.find, shifted by one)
RECURSIVE FindFrom(_, _, _)
FindFrom(s, sub, i) ==
    IF i + Len(sub) - 1 > Len(s) THEN 0
    ELSE IF SubSeq(s, i, i + Len(sub) - 1) = sub THEN i
    ELSE FindFrom(s, sub, i + 1)

Find(s, sub) == FindFrom(s, sub, 1)

\* sub in s
Contains(s, sub) == Find(s, sub) # 0

\* 1-based index of the last occurrence of the character c in s, 0 when none
RECURSIVE RFindTo(_, _, _)
RFindTo(s, c, i) ==
    IF i < 1 THEN 0
    ELSE IF CharAt(s, i) = c THEN i
    ELSE RFindTo(s, c, i - 1)

RFind(s, c) == RFindTo(s, c, Len(s))

StartsWith(s, p) == Len(p) <= Len(s) /\ SubSeq(s, 1, Len(p)) = p

EndsWith(s, p) == Len(p) <= Len(s) /\ SubSeq(s, Len(s) - Len(p) + 1, Len(s)) = p

UpperLetters == "ABCDEFGHIJKLMNOPQRSTUVWXYZ"

LowerLetters == "abcdefghijklmnopqrstuvwxyz"

Digits == "0123456789"

IsDigit(c) == Len(c) = 1 /\ Contains(Digits, c)

IsAlpha(c) == Len(c) = 1 /\ (Contains(UpperLetters, c) \/ Contains(LowerLetters, c))

LowerChar(c) ==
    IF Contains(UpperLetters, c) THEN CharAt(LowerLetters, Find(UpperLetters, c)) ELSE c

\* str.lower()
RECURSIVE Lower(_)
Lower(s) == IF s = "" THEN "" ELSE LowerChar(Head(s)) \o Lower(Tail(s))

\* str.isdigit() on an ASCII string
RECURSIVE AllDigits(_)
AllDigits(s) == IF s = "" THEN TRUE ELSE IsDigit(Head(s)) /\ AllDigits(Tail(s))

\* int(s) for a string of decimal digits
RECURSIVE ParseInt(_)
ParseInt(digits) ==
    With(digits, LAMBDA s :
        IF s = "" THEN 0
        ELSE 10 * ParseInt(Before(s, Len(s))) + (Find(Digits, CharAt(s, Len(s))) - 1))

\* str(n) for n >= 0
RECURSIVE IntToStr(_)
IntToStr(n) ==
    IF n < 10 THEN CharAt(Digits, n + 1)
    ELSE IntToStr(n \div 10) \o CharAt(Digits, (n % 10) + 1)

(***************************************************************************)
(* urllib.parse as scraper.py uses it.  A parse either raises ValueError   *)
(* (ok = FALSE) or yields the six components.                              *)
(***************************************************************************)
SchemeChars == UpperLetters \o LowerLetters \o Digits \o "+-."

RECURSIVE AllIn(_, _)
AllIn(s, chars) == IF s = "" THEN TRUE ELSE Contains(chars, Head(s)) /\ AllIn(Tail(s), chars)

\* the first position at or after i of any of "/", "?", "#"; Len(s) + 1 when none
RECURSIVE NetlocEnd(_, _)
NetlocEnd(s, i) ==
    IF i > Len(s) THEN Len(s) + 1
    ELSE IF CharAt(s, i) \in {"/", "?", "#"} THEN i
    ELSE NetlocEnd(s, i + 1)

\* urlparse()'s _splitparams: the parameters of the last path segment
SplitParams(path) ==
    With(RFind(path, "/"), LAMBDA slash :
    With(FindFrom(path, ";", IF slash = 0 THEN 1 ELSE slash), LAMBDA semi :
        IF semi = 0 THEN [path |-> path, params |-> ""]
        ELSE [path |-> Before(path, semi), params |-> From(path, semi + 1)]))

\* urlsplit: the scheme, when the text before the first ":" is one
SplitScheme(url) ==
    With(Find(url, ":"), LAMBDA colon :
        IF colon > 1 /\ IsAlpha(CharAt(url, 1)) /\ AllIn(Before(url, colon), SchemeChars)
        THEN [scheme |-> Lower(Before(url, colon)), rest |-> From(url, colon + 1)]
        ELSE [scheme |-> "", rest |-> url])

\* urlsplit: the netloc, when the rest starts with "//"
SplitNetloc(rest) ==
    With(NetlocEnd(rest, 3), LAMBDA nEnd :
        IF StartsWith(rest, "//")
        THEN [netloc |-> SubSeq(rest, 3, nEnd - 1), rest |-> From(rest, nEnd)]
        ELSE [netloc |-> "", rest |-> rest])

\* s.split(c, 1) for a character c: what is before it and what is after
CutAt(s, c) ==
    With(Find(s, c), LAMBDA i :
        IF i = 0 THEN [head |-> s, tail |-> ""]
        ELSE [head |-> Before(s, i), tail |-> From(s, i + 1)])

HexDigits == "0123456789abcdefABCDEF"

\* the IPv6 addresses ipaddress.ip_address() accepts, of those this model writes
IPv6Literals == {"::1", "::", "2001:db8::1"}

\* _check_bracketed_host: an IPvFuture literal v<hex>.<text>, or an IPv6 address
BracketedHostOk(h) ==
    IF StartsWith(h, "v")
    THEN With(Find(h, "."), LAMBDA dot :
            dot > 2 /\ dot < Len(h) /\ AllIn(SubSeq(h, 2, dot - 1), HexDigits))
    ELSE h \in IPv6Literals

\* urlsplit's checks of the netloc: the brackets pair up and hold an address
NetlocOk(netloc) ==
    /\ Contains(netloc, "[") = Contains(netloc, "]")
    /\ Contains(netloc, "[") => BracketedHostOk(CutAt(CutAt(netloc, "[").tail, "]").head)

\* urlparse(u); ok = FALSE when it raises ValueError
urlparse(u) ==
    With(u, LAMBDA url :
    With(SplitScheme(url), LAMBDA a :
    With(SplitNetloc(a.rest), LAMBDA b :
    With(CutAt(b.rest, "#"), LAMBDA c :
    With(CutAt(c.head, "?"), LAMBDA d :
    With(IF Contains(d.head, ";") THEN SplitParams(d.head)
         ELSE [path |-> d.head, params |-> ""], LAMBDA sp :
        [ok |-> NetlocOk(b.netloc),
         scheme |-> a.scheme, netloc |-> b.netloc, path |-> sp.path,
         params |-> sp.params, query |-> d.tail, fragment |-> c.tail]))))))

\* ParseResult._hostinfo: (hostname, port) as written in the netloc
HostInfo(netloc) ==
    With(From(netloc, RFind(netloc, "@") + 1), LAMBDA hostinfo :
    With(CutAt(hostinfo, "["), LAMBDA br :
    With(CutAt(br.tail, "]"), LAMBDA inner :
    With(CutAt(inner.tail, ":"), LAMBDA brPort :
    With(CutAt(hostinfo, ":"), LAMBDA plain :
        IF Contains(hostinfo, "[")
        THEN [hostname |-> inner.head, port |-> brPort.tail]
        ELSE [hostname |-> plain.head, port |-> plain.tail])))))

\* ParseResult.hostname: lower-cased, None (here "") when empty
Hostname(parsed) == Lower(HostInfo(parsed.netloc).hostname)

\* ParseResult.port raises ValueError on a non-numeric or out-of-range port
MaxPort == 65535

PortRaises(parsed) ==
    With(HostInfo(parsed.netloc).port, LAMBDA p :
        p # "" /\ (~AllDigits(p) \/ ParseInt(p) > MaxPort))

\* ParseResult.port: the number, or -1 for None
Port(parsed) ==
    With(HostInfo(parsed.netloc).port, LAMBDA p : IF p = "" THEN -1 ELSE ParseInt(p))

\* urllib.parse.uses_netloc, the members a URL of this crawl can name
UsesNetloc == {"http", "https", "ftp", "file", "ws", "wss", "sftp", "svn", "git"}

\* urlunparse() (urlunsplit after re-attaching the parameters)
urlunparse(scheme, netloc, path, params, query, fragment) ==
    With(IF params # "" THEN path \o ";" \o params ELSE path, LAMBDA p1 :
    With(IF netloc # "" \/ (scheme \in UsesNetloc /\ ~StartsWith(p1, "//"))
         THEN "//" \o netloc \o (IF p1 # "" /\ CharAt(p1, 1) # "/" THEN "/" \o p1 ELSE p1)
         ELSE p1, LAMBDA p2 :
        (IF scheme # "" THEN scheme \o ":" \o p2 ELSE p2)
        \o (IF query # "" THEN "?" \o query ELSE "")
        \o (IF fragment # "" THEN "#" \o fragment ELSE "")))

\* urldefrag(u)[0]; ok = FALSE when the parse raises
urldefrag(u) ==
    IF ~Contains(u, "#") THEN [ok |-> TRUE, url |-> u]
    ELSE With(urlparse(u), LAMBDA p :
            [ok |-> p.ok,
             url |-> urlunparse(p.scheme, p.netloc, p.path, p.params, p.query, "")])

(***************************************************************************)
(* _standard_url                                                           *)
(***************************************************************************)
ALLOWED_SCHEMES == {"http", "https"}

ALLOWED_HOST_SUFFIXES == <<"ics.uci.edu", "cs.uci.edu", "informatics.uci.edu", "stat.uci.edu">>

HttpDefaultPort == 80

HttpsDefaultPort == 443

\* re.sub(r"/{2,}", "/", path)
RECURSIVE CollapseSlashes(_)
CollapseSlashes(p) ==
    With(p, LAMBDA path :
        IF Len(path) < 2 THEN path
        ELSE IF Head(path) = "/" /\ CharAt(path, 2) = "/" THEN CollapseSlashes(Tail(path))
        ELSE Head(path) \o CollapseSlashes(Tail(path)))

\* the netloc _standard_url rebuilds: the host, and the port unless it is
\* absent, zero or the scheme's default
StdNetloc(scheme, host, port) ==
    IF port > 0 /\ ( (scheme = "http" /\ port # HttpDefaultPort)
                     \/ (scheme = "https" /\ port # HttpsDefaultPort) )
    THEN host \o ":" \o IntToStr(port)
    ELSE host

\* the path _standard_url rebuilds
StdPath(parsedPath) ==
    With(CollapseSlashes(IF parsedPath = "" THEN "/" ELSE parsedPath), LAMBDA p1 :
        IF p1 # "/" /\ EndsWith(p1, "/") THEN Before(p1, Len(p1)) ELSE p1)

\* _standard_url(u): the canonical URL, or None
StandardUrl(u) ==
    With(urldefrag(u), LAMBDA d :
    With(urlparse(d.url), LAMBDA parsed :
    With(Hostname(parsed), LAMBDA host :
        IF ~d.ok \/ ~parsed.ok THEN None
        ELSE IF parsed.scheme \notin ALLOWED_SCHEMES THEN None
        ELSE IF host = "" THEN None
        ELSE IF PortRaises(parsed) THEN None
        ELSE parsed.scheme \o "://"
             \o StdNetloc(parsed.scheme, host, Port(parsed))
             \o StdPath(parsed.path)
             \o (IF parsed.query # "" THEN "?" \o parsed.query ELSE ""))))

(***************************************************************************)
(* is_valid                                                                *)
(***************************************************************************)
DeniedExtensions ==
    {"css", "js", "bmp", "gif", "jpg", "jpeg", "ico", "webp",
     "png", "tif", "tiff", "mid", "mp2", "mp3", "mp4", "webm",
     "wav", "avi", "mov", "mpeg", "mpg", "ram", "m4v", "mkv", "ogg", "ogv", "pdf",
     "ps", "eps", "tex", "ppt", "pptx", "pps", "ppsx", "doc", "docx", "xls", "xlsx",
     "names", "data", "dat", "exe", "bz2", "tar", "msi", "bin", "7z", "psd", "dmg",
     "iso", "epub", "dll", "cnf", "tgz", "sha1",
     "thmx", "mso", "arff", "rtf", "jar", "csv",
     "rm", "smil", "wmv", "swf", "wma", "zip", "rar", "gz"}

TrapQueryKeys == {"action=diff", "format=txt", "precision=second", "version=", "timeline", "from="}

MaxSegments == 12

MaxSegmentRepeat == 3

\* [s for s in path.split("/") if s]
RECURSIVE Segments(_)
Segments(p) ==
    With(p, LAMBDA path :
    With(Find(path, "/"), LAMBDA slash :
        IF path = "" THEN << >>
        ELSE IF slash = 0 THEN <<path>>
        ELSE IF slash = 1 THEN Segments(Tail(path))
        ELSE <<Before(path, slash)>> \o Segments(From(path, slash + 1))))

\* the host check without the dot boundary
HostEndsWithDomain(host) ==
    \E i \in DOMAIN ALLOWED_HOST_SUFFIXES : EndsWith(host, ALLOWED_HOST_SUFFIXES[i])

\* host == domain or host.endswith("." + domain) for some allowed domain
HostAllowed(host) ==
    \E i \in DOMAIN ALLOWED_HOST_SUFFIXES :
        host = ALLOWED_HOST_SUFFIXES[i] \/ EndsWith(host, "." \o ALLOWED_HOST_SUFFIXES[i])

\* re.search(r"/\d{4}-\d{2}$", path)
EndsWithYearMonth(path) ==
    LET n == Len(path)
    IN  /\ n >= 8
        /\ CharAt(path, n - 7) = "/"
        /\ AllDigits(SubSeq(path, n - 6, n - 3))
        /\ CharAt(path, n - 2) = "-"
        /\ AllDigits(SubSeq(path, n - 1, n))

\* the checks of is_valid after the parse, in the code's order
PolicyAccepts(parsed) ==
    With(Hostname(parsed), LAMBDA host :
    With(Lower(parsed.path), LAMBDA path :
    With(Lower(parsed.query), LAMBDA query :
    With(Segments(path), LAMBDA segments :
        /\ parsed.scheme \in ALLOWED_SCHEMES
        /\ HostAllowed(host)
        /\ ~\E e \in DeniedExtensions : EndsWith(path, "." \o e)
        /\ ~\E k \in TrapQueryKeys : Contains(query, k)
        /\ ~Contains(path, "/events/")
        /\ ~Contains(path, "/event/")
        /\ ~EndsWithYearMonth(path)
        /\ ~(Contains(path, "/events/tag/") \/ Contains(path, "/events/day/"))
        /\ ~(Contains(path, "/events/week") \/ Contains(path, "/events/month")
             \/ Contains(path, "/events/list"))
        /\ ~(Contains(query, "ical=1") \/ Contains(query, "tribe_")
             \/ Contains(query, "tribe-bar-date"))
        /\ ~StartsWith(path, "/doku.php")
        /\ ~Contains(path, "/lib/exe/fetch.php")
        /\ ~EndsWith(path, "/wp-login.php")
        /\ Len(segments) <= MaxSegments
        /\ \A i \in DOMAIN segments :
               Cardinality({j \in DOMAIN segments : segments[j] = segments[i]})
                   <= MaxSegmentRepeat))))

\* is_valid(url): "True", "False", or "ValueError" when urlparse raises (the
\* handler at line 366 catches TypeError only)
IsValidOutcome(url) ==
    With(urlparse(url), LAMBDA parsed :
        IF ~parsed.ok THEN "ValueError"
        ELSE IF PolicyAccepts(parsed) THEN "True"
        ELSE "False")

is_valid(url) == IsValidOutcome(url) = "True"

(***************************************************************************)
(* Visible text.  A text is the words of soup.get_text(" ", strip = True)  *)
(* in order, separated by single spaces, written as runs: n copies of w.   *)
(* Words are made of letters and digits only.                              *)
(***************************************************************************)
Run(w, n) == [w |-> w, n |-> n]

TextA == <<Run("the", 70), Run("Crawler", 20), Run("data", 10)>>

TextB == <<Run("the", 60), Run("uci", 50), Run("x", 5), Run("2024", 10)>>

TextC == <<Run("of", 90), Run("search", 10)>>

TextShort == <<Run("the", 50), Run("data", 49)>>

TextHuge == <<Run("data", 200001)>>

TextNumeric == <<Run("2024", 150), Run("ab", 10)>>

TextP == <<Run("the", 99), Run("web", 1)>>

TextQ == <<Run("of", 99), Run("web", 1)>>

TextR == <<Run("and", 98), Run("web", 1), Run("to", 1), Run("of", 1)>>

NoText == << >>

STOP_WORDS ==
    {"a", "about", "above", "after", "again", "against", "all", "am", "an", "and", "any", "are",
     "as", "at", "also",
     "be", "because", "been", "before", "being", "below", "between", "both", "but", "by",
     "can", "could",
     "did", "do", "does", "doing", "down", "during",
     "each",
     "few", "for", "from", "further",
     "had", "has", "have", "having", "he", "her", "here", "hers", "herself", "him", "himself", "his",
     "how",
     "i", "if", "in", "into", "is", "it", "its", "itself",
     "just",
     "me", "more", "most", "my", "myself", "may",
     "no", "nor", "not", "now",
     "of", "off", "on", "once", "only", "or", "other", "our", "ours", "ourselves", "out", "over",
     "own",
     "same", "she", "should", "so", "some", "such",
     "than", "that", "the", "their", "theirs", "them", "themselves", "then", "there", "these",
     "they",
     "this", "those", "through", "to", "too",
     "under", "until", "up",
     "very",
     "was", "we", "were", "what", "when", "where", "which", "while", "who", "whom", "why", "with",
     "would", "will",
     "you", "your", "yours", "yourself", "yourselves"}

RECURSIVE SumRuns(_)
SumRuns(runs) == IF runs = << >> THEN 0 ELSE Head(runs).n + SumRuns(Tail(runs))

\* len(text): the words and the single spaces between them
RECURSIVE WordChars(_)
WordChars(text) == IF text = << >> THEN 0 ELSE Head(text).n * Len(Head(text).w) + WordChars(Tail(text))

TextLen(text) == IF text = << >> THEN 0 ELSE WordChars(text) + SumRuns(text) - 1

RECURSIVE CountAlpha(_)
CountAlpha(w) == IF w = "" THEN 0 ELSE (IF IsAlpha(Head(w)) THEN 1 ELSE 0) + CountAlpha(Tail(w))

\* sum(c.isalpha() for c in text)
RECURSIVE AlphaChars(_)
AlphaChars(text) ==
    IF text = << >> THEN 0 ELSE Head(text).n * CountAlpha(Head(text).w) + AlphaChars(Tail(text))

MinTokenLen == 2

\* _tokenize(text): the lower-cased words of at least two characters
RECURSIVE Tokenize(_)
Tokenize(text) ==
    IF text = << >> THEN << >>
    ELSE IF Len(Head(text).w) >= MinTokenLen
         THEN <<Run(Lower(Head(text).w), Head(text).n)>> \o Tokenize(Tail(text))
         ELSE Tokenize(Tail(text))

\* the tokens the word-frequency loop counts: not a stop word, some letter
Counted(w) == w \notin STOP_WORDS /\ CountAlpha(w) > 0

\* hashlib.sha1(text.encode("utf-8")).hexdigest() of the texts of this model
Sha1(text) ==
    CASE text = TextA -> "3fcea2ae88f7c33f96fcc0a5cbb3376ecc62930f"
      [] text = TextB -> "d921259056446a2e297717aa6cfb54c0c8525844"
      [] text = TextC -> "cb9e851a30fec6266d0cc790d0431d391814c006"
      [] text = TextShort -> "e0d1c8666043b8e9234d4acd6fcc80e9c8b17a81"
      [] text = TextHuge -> "a0a53e0c640164a10b66fac45e8b8a0b747f1af1"
      [] text = TextNumeric -> "eaaf079acb56f128b22119dba8b931b5ee2e3ca8"
      [] text = TextP -> "39c782fdb84e25e8967803d48702f6f73b1553d7"
      [] text = TextQ -> "e7f862c6587d243356c162fd2ea0feb38cc3949a"
      [] text = TextR -> "9cf055d2195ff0889c5e9f5cd816c5041ba1bc07"
      [] text = NoText -> "da39a3ee5e6b4b0d3255bfef95601890afd80709"

MinTokens == 100

MaxTokens == 200000

\* alpha_ratio < 0.6, with alpha_ratio = alpha_chars / max(len(text), 1)
AlphaRatioNum == 6

AlphaRatioDen == 10

LowAlphaRatio(text) ==
    LET len == IF TextLen(text) > 1 THEN TextLen(text) ELSE 1
    IN  AlphaChars(text) * AlphaRatioDen < AlphaRatioNum * len

(***************************************************************************)
(* The aggregate tables (module globals, lines 20-32) and the snapshot.    *)
(***************************************************************************)
VARIABLES
    SEEN_URLS,            \* set of canonical URLs
    PAGE_WORDCOUNT,       \* dict: canonical URL -> word count
    LONGEST_PAGE_URL,     \* canonical URL or None
    LONGEST_PAGE_WORDS,   \* int
    GLOBAL_WORD_FREQ,     \* Counter: word -> count
    SUBDOMAIN_PAGECOUNT,  \* defaultdict(int): host -> count
    PATH_FAMILY_COUNT,    \* Counter, never updated by scraper()
    CONTENT_HASHES,       \* set of hex digests
    last_save_ts,         \* _save_stats._last_save_ts (0 while the attribute is unset)
    stats_file,           \* the content of STATS_PATH
    now,                  \* time.time(), in seconds
    phase,                \* "import" before line 198 has run, "run" after; "url" when only
                          \* the URL functions are applied
    ret,                  \* what the last scraper() call returned
    call,                 \* the last operation and its inputs
    saved,                \* the aggregates as they were when stats_file was last written
    workers,              \* the concurrent scraper() calls: position and locals
    url_in,               \* the URL under study, and a second spelling of it
    url_out               \* what the URL functions made of them

EmptyDict == [x \in {} |-> 0]

\* the module globals as one record
Globals ==
    [SEEN_URLS |-> SEEN_URLS, PAGE_WORDCOUNT |-> PAGE_WORDCOUNT,
     LONGEST_PAGE_URL |-> LONGEST_PAGE_URL, LONGEST_PAGE_WORDS |-> LONGEST_PAGE_WORDS,
     GLOBAL_WORD_FREQ |-> GLOBAL_WORD_FREQ, SUBDOMAIN_PAGECOUNT |-> SUBDOMAIN_PAGECOUNT,
     PATH_FAMILY_COUNT |-> PATH_FAMILY_COUNT, CONTENT_HASHES |-> CONTENT_HASHES]

\* the globals as lines 20-32 define them
EmptyGlobals ==
    [SEEN_URLS |-> {}, PAGE_WORDCOUNT |-> EmptyDict,
     LONGEST_PAGE_URL |-> None, LONGEST_PAGE_WORDS |-> 0,
     GLOBAL_WORD_FREQ |-> EmptyDict, SUBDOMAIN_PAGECOUNT |-> EmptyDict,
     PATH_FAMILY_COUNT |-> EmptyDict, CONTENT_HASHES |-> {}]

(***************************************************************************)
(* JSON documents: a value is tagged with its JSON type.                   *)
(*   list: a list of strings      dict: an object of integers              *)
(*   dictstr: an object of non-numeric strings                             *)
(*   int, str, null; absent: the key is not in the object                  *)
(***************************************************************************)
J(t, v) ==
    [t |-> t,
     n |-> IF t = "int" THEN v ELSE 0,
     s |-> IF t = "str" THEN v ELSE "",
     l |-> IF t = "list" THEN v ELSE << >>,
     d |-> IF t = "dict" THEN v ELSE EmptyDict,
     ds |-> IF t = "dictstr" THEN v ELSE EmptyDict]

Absent == J("absent", 0)

JNull == J("null", 0)

\* Python's str order (code points) on the ASCII characters URLs and digests
\* are written with
AsciiOrder ==
    " !#$%&'()*+,-./0123456789:;<=>?@ABCDEFGHIJKLMNOPQRSTUVWXYZ[\\]^_abcdefghijklmnopqrstuvwxyz{|}~"

Ord(c) == Find(AsciiOrder, c)

RECURSIVE StrLess(_, _)
StrLess(a, b) ==
    IF b = "" THEN FALSE
    ELSE IF a = "" THEN TRUE
    ELSE IF Head(a) = Head(b) THEN StrLess(Tail(a), Tail(b))
    ELSE Ord(Head(a)) < Ord(Head(b))

\* sorted(S) for a set of strings
RECURSIVE Sorted(_)
Sorted(strings) ==
    With(strings, LAMBDA S :
        IF S = {} THEN << >>
        ELSE With(CHOOSE x \in S : \A y \in S : y = x \/ StrLess(x, y), LAMBDA m :
                <<m>> \o Sorted(S \ {m})))

Range(seq) == {seq[i] : i \in DOMAIN seq}

\* the data dict of _save_stats as json.dump writes it
SnapshotOf(G) ==
    [seen_urls |-> J("list", Sorted(G.SEEN_URLS)),
     page_wordcount |-> J("dict", G.PAGE_WORDCOUNT),
     longest_page_url |-> IF G.LONGEST_PAGE_URL = None THEN JNull
                          ELSE J("str", G.LONGEST_PAGE_URL),
     longest_page_words |-> J("int", G.LONGEST_PAGE_WORDS),
     global_word_freq |-> J("dict", G.GLOBAL_WORD_FREQ),
     subdomain_pagecount |-> J("dict", G.SUBDOMAIN_PAGECOUNT),
     path_family_count |-> J("dict", G.PATH_FAMILY_COUNT),
     content_hashes |-> J("list", Sorted(G.CONTENT_HASHES))]

NoData == [seen_urls |-> Absent, page_wordcount |-> Absent, longest_page_url |-> Absent,
           longest_page_words |-> Absent, global_word_freq |-> Absent,
           subdomain_pagecount |-> Absent, path_family_count |-> Absent,
           content_hashes |-> Absent]

FileMissing == [kind |-> "missing", data |-> NoData]

\* not a JSON object: truncated or foreign content
FileGarbage == [kind |-> "garbage", data |-> NoData]

FileJson(data) == [kind |-> "json", data |-> data]

(***************************************************************************)
(* _load_stats: each conversion either raises or yields the new value.     *)
(***************************************************************************)
\* set(data.get(key, []))
SetRaises(j) == j.t \in {"int", "null"}

SetOf(j) ==
    CASE j.t = "list" -> Range(j.l)
      [] j.t = "dict" -> DOMAIN j.d
      [] j.t = "dictstr" -> DOMAIN j.ds
      [] j.t = "str" -> {CharAt(j.s, i) : i \in 1..Len(j.s)}
      [] OTHER -> {}

\* {k: int(v) for k, v in data.get(key, {}).items()}
IntDictRaises(j) == j.t \notin {"absent", "dict"} /\ ~(j.t = "dictstr" /\ DOMAIN j.ds = {})

\* the comprehension of line 74 keeping no item
IntDictDropped(j) == EmptyDict

IntDictOf(j) == IF j.t = "dict" THEN j.d ELSE EmptyDict

\* int(data.get(key, 0))
IntRaises(j) == j.t \notin {"absent", "int"} /\ ~(j.t = "str" /\ j.s # "" /\ AllDigits(j.s))

IntOf(j) ==
    CASE j.t = "int" -> j.n
      [] j.t = "str" -> ParseInt(j.s)
      [] OTHER -> 0

\* Counter(data.get(key, {}))
CounterRaises(j) == j.t = "int"

CounterOf(j) ==
    CASE j.t = "dict" -> j.d
      [] j.t = "dictstr" -> j.ds
      [] j.t = "list" ->
            [x \in Range(j.l) |-> Cardinality({i \in DOMAIN j.l : j.l[i] = x})]
      [] j.t = "str" ->
            [x \in {CharAt(j.s, i) : i \in 1..Len(j.s)} |->
                Cardinality({i \in 1..Len(j.s) : CharAt(j.s, i) = x})]
      [] OTHER -> EmptyDict

\* data.get("longest_page_url"): a string or null in the documents of this model
UrlOf(j) == IF j.t = "str" THEN j.s ELSE None

\* _load_stats() on globals G: the assignments run in order and stop at the
\* first conversion that raises; every exception is swallowed
LoadStats(G, f) ==
    LET d  == f.data
        k1 == f.kind = "json" /\ ~SetRaises(d.seen_urls)
        k2 == k1 /\ ~IntDictRaises(d.page_wordcount)
        k3 == k2
        k4 == k3 /\ ~IntRaises(d.longest_page_words)
        k5 == k4 /\ ~CounterRaises(d.global_word_freq)
        k6 == k5 /\ ~IntDictRaises(d.subdomain_pagecount)
        k7 == k6 /\ ~CounterRaises(d.path_family_count)
        k8 == k7 /\ ~SetRaises(d.content_hashes)
    IN  [SEEN_URLS |-> IF k1 THEN SetOf(d.seen_urls) ELSE G.SEEN_URLS,
         PAGE_WORDCOUNT |-> IF k2 THEN IntDictOf(d.page_wordcount) ELSE G.PAGE_WORDCOUNT,
         LONGEST_PAGE_URL |-> IF k3 THEN UrlOf(d.longest_page_url) ELSE G.LONGEST_PAGE_URL,
         LONGEST_PAGE_WORDS |-> IF k4 THEN IntOf(d.longest_page_words)
                                ELSE G.LONGEST_PAGE_WORDS,
         GLOBAL_WORD_FREQ |-> IF k5 THEN CounterOf(d.global_word_freq)
                              ELSE G.GLOBAL_WORD_FREQ,
         SUBDOMAIN_PAGECOUNT |-> IF k6 THEN IntDictOf(d.subdomain_pagecount)
                                 ELSE G.SUBDOMAIN_PAGECOUNT,
         PATH_FAMILY_COUNT |-> IF k7 THEN CounterOf(d.path_family_count)
                               ELSE G.PATH_FAMILY_COUNT,
         CONTENT_HASHES |-> IF k8 THEN SetOf(d.content_hashes) ELSE G.CONTENT_HASHES]

(***************************************************************************)
(* _save_stats                                                             *)
(***************************************************************************)
DefaultThrottle == 2

\* the test of line 94 never holding
NeverThrottled(t, last, throttle) == FALSE

\* now - last < throttle_seconds
Throttled(t, last, throttle) == t - last < throttle

\* _save_stats(throttle): io is what the file system does with the write:
\* "ok", "open_fails" (the file is untouched) or "dump_fails" (open() has
\* truncated the file and json.dump stopped part-way)
SaveStats(G, f, last, t, throttle, io) ==
    IF Throttled(t, last, throttle)
    THEN [file |-> f, last |-> last, wrote |-> FALSE]
    ELSE [file |-> CASE io = "ok" -> FileJson(SnapshotOf(G))
                     [] io = "open_fails" -> f
                     [] OTHER -> FileGarbage,
          last |-> t,
          wrote |-> io = "ok"]

(***************************************************************************)
(* extract_next_links                                                      *)
(***************************************************************************)
\* urllib.parse.uses_relative, the members a URL of this crawl can name
UsesRelative == {"", "http", "https", "ftp", "file", "ws", "wss", "sftp", "svn"}

\* s.split("/")
RECURSIVE SplitSlash(_)
SplitSlash(str) ==
    With(str, LAMBDA s :
    With(Find(s, "/"), LAMBDA slash :
        IF slash = 0 THEN <<s>>
        ELSE <<Before(s, slash)>> \o SplitSlash(From(s, slash + 1))))

\* "/".join(segs)
RECURSIVE JoinSlash(_)
JoinSlash(segs) ==
    IF segs = << >> THEN ""
    ELSE IF Len(segs) = 1 THEN segs[1]
    ELSE segs[1] \o "/" \o JoinSlash(Tail(segs))

\* urljoin's removal of "." and ".." segments
RECURSIVE ResolveDots(_, _)
ResolveDots(segments, resolved) ==
    With(segments, LAMBDA segs :
    With(resolved, LAMBDA acc :
        IF segs = << >> THEN acc
        ELSE IF Head(segs) = ".."
             THEN ResolveDots(Tail(segs),
                              IF acc = << >> THEN acc ELSE SubSeq(acc, 1, Len(acc) - 1))
        ELSE IF Head(segs) = "." THEN ResolveDots(Tail(segs), acc)
        ELSE ResolveDots(Tail(segs), Append(acc, Head(segs)))))

\* segments[1:-1] = filter(None, segments[1:-1])
DropInnerEmpty(segs) ==
    IF Len(segs) < 3 THEN segs
    ELSE <<segs[1]>>
         \o SelectSeq(SubSeq(segs, 2, Len(segs) - 1), LAMBDA x : x # "")
         \o <<segs[Len(segs)]>>

\* the path urljoin resolves a relative reference to
ResolvedPath(basePath, path) ==
    With(SplitSlash(basePath), LAMBDA baseParts0 :
    With(IF baseParts0[Len(baseParts0)] # ""
         THEN SubSeq(baseParts0, 1, Len(baseParts0) - 1) ELSE baseParts0, LAMBDA baseParts :
    With(IF StartsWith(path, "/") THEN SplitSlash(path)
         ELSE DropInnerEmpty(baseParts \o SplitSlash(path)), LAMBDA segments :
    With(ResolveDots(segments, << >>), LAMBDA resolved0 :
    With(JoinSlash(IF segments[Len(segments)] \in {".", ".."}
                   THEN Append(resolved0, "") ELSE resolved0), LAMBDA joined :
        IF joined = "" THEN "/" ELSE joined)))))

\* urljoin(base, url) for a non-empty base and url; ok = FALSE when a parse raises
urljoin(base, url) ==
    With(urlparse(base), LAMBDA b :
    With(urlparse(url), LAMBDA r :
    With(IF r.scheme = "" THEN b.scheme ELSE r.scheme, LAMBDA scheme :
    With(scheme = "" \/ scheme \in UsesNetloc, LAMBDA usesNetloc :
    With(IF usesNetloc THEN b.netloc ELSE r.netloc, LAMBDA netloc :
        IF ~b.ok \/ ~r.ok THEN [ok |-> FALSE, url |-> ""]
        ELSE IF scheme # b.scheme \/ scheme \notin UsesRelative THEN [ok |-> TRUE, url |-> url]
        ELSE IF usesNetloc /\ r.netloc # ""
             THEN [ok |-> TRUE,
                   url |-> urlunparse(scheme, r.netloc, r.path, r.params, r.query, r.fragment)]
        ELSE IF r.path = "" /\ r.params = ""
             THEN [ok |-> TRUE,
                   url |-> urlunparse(scheme, netloc, b.path, b.params,
                                      IF r.query = "" THEN b.query ELSE r.query, r.fragment)]
        ELSE [ok |-> TRUE,
              url |-> urlunparse(scheme, netloc, ResolvedPath(b.path, r.path),
                                 r.params, r.query, r.fragment)])))))

\* list(dict.fromkeys(links)): first occurrences, in order
RECURSIVE DedupInto(_, _)
DedupInto(kept, rest) ==
    With(kept, LAMBDA acc :
    With(rest, LAMBDA links :
        IF links = << >> THEN acc
        ELSE DedupInto(IF \E i \in DOMAIN acc : acc[i] = Head(links) THEN acc
                       ELSE Append(acc, Head(links)),
                       Tail(links))))

Dedup(links) == DedupInto(<< >>, links)

\* the fetch result handed to scraper(url, resp); hrefs and text are what
\* BeautifulSoup finds in resp.raw_response.content
Response(url, status, respUrl, ctype, hrefs, text) ==
    [url |-> url, present |-> TRUE, status |-> status, raw |-> TRUE, content |-> TRUE,
     resp_url |-> respUrl, raw_url |-> respUrl, ctype |-> ctype, hrefs |-> hrefs, text |-> text]

\* base_url = resp.url or raw.url or url
BaseUrl(page) ==
    IF page.resp_url # "" THEN page.resp_url
    ELSE IF page.raw_url # "" THEN page.raw_url
    ELSE page.url

\* one iteration of the loop over the anchors: the std_url appended, "" when
\* nothing is appended; ok = FALSE when the iteration raises
LinkOf(base, href) ==
    With(urljoin(base, href), LAMBDA j :
    With(urldefrag(j.url), LAMBDA d :
        IF href = "" THEN [ok |-> TRUE, url |-> ""]
        ELSE IF ~j.ok \/ ~d.ok THEN [ok |-> FALSE, url |-> ""]
        ELSE [ok |-> TRUE, url |-> StandardUrl(d.url)]))

extract_next_links(page) ==
    With(BaseUrl(page), LAMBDA base :
    With([i \in DOMAIN page.hrefs |-> LinkOf(base, page.hrefs[i])], LAMBDA each :
        IF ~page.present \/ page.status # 200 THEN << >>
        ELSE IF ~page.raw THEN << >>
        ELSE IF ~page.content THEN << >>
        ELSE IF \E i \in DOMAIN each : ~each[i].ok THEN << >>
        ELSE Dedup(SelectSeq([i \in DOMAIN each |-> each[i].url], LAMBDA x : x # ""))))

(***************************************************************************)
(* scraper(): the content analysis                                         *)
(***************************************************************************)
\* the membership test of line 142 always failing
NeverSeen(seen, u) == FALSE

\* standard_url in SEEN_URLS
AlreadySeen(seen, u) == u \in seen

\* the threshold of line 151 taken one too low
SparseBelow99(wc) == wc < MinTokens - 1

\* len(tokens) < 100
TooSparse(wc) == wc < MinTokens

\* wc > 200000
TooLong(wc) == wc > MaxTokens

\* the test of line 166 never finding the fingerprint
HashNeverKnown(hashes, h) == FALSE

\* text_hash in CONTENT_HASHES
HashKnown(hashes, h) == h \in hashes

\* line 172 binding a new dict instead of storing into the shared one
RecordOnlyThis(pw, u, wc) == [x \in {u} |-> wc]

\* PAGE_WORDCOUNT[standard_url] = wc
RecordWordcount(pw, u, wc) == [x \in DOMAIN pw \cup {u} |-> IF x = u THEN wc ELSE pw[x]]

\* the comparison of line 174 without strictness
IsAtLeast(wc, longest) == wc >= longest

\* wc > LONGEST_PAGE_WORDS
IsLonger(wc, longest) == wc > longest

\* counter[k] += n, a missing key counting as 0
AddCount(counter, k, n) ==
    [x \in DOMAIN counter \cup {k} |->
        IF x = k THEN (IF k \in DOMAIN counter THEN counter[k] ELSE 0) + n ELSE counter[x]]

\* the word-frequency loop over the tokens
RECURSIVE CountWords(_, _)
CountWords(counter, rest) ==
    With(counter, LAMBDA freq :
    With(rest, LAMBDA tokens :
        IF tokens = << >> THEN freq
        ELSE CountWords(IF Counted(Head(tokens).w)
                        THEN AddCount(freq, Head(tokens).w, Head(tokens).n) ELSE freq,
                        Tail(tokens))))

\* host.endswith("uci.edu")
InTopDomain(host) == EndsWith(host, "uci.edu")

\* the declared type is present and is neither HTML nor XHTML
NotHtml(ctype) ==
    ctype # "" /\ ~Contains(ctype, "text/html") /\ ~Contains(ctype, "application/xhtml+xml")

\* the URL scraper() analyses the page under
PageUrl(page) == StandardUrl(IF page.resp_url # "" THEN page.resp_url ELSE page.url)

\* what scraper() computes from the fetch result alone: the valid links (or
\* that is_valid raised inside the list comprehension of line 117), the
\* canonical URL, the tokens, their number, the fingerprint and the host
Facts(page) ==
    With(extract_next_links(page), LAMBDA links :
    With(PageUrl(page), LAMBDA standard_url :
    With(Tokenize(page.text), LAMBDA tokens :
        [raised |-> \E i \in DOMAIN links : IsValidOutcome(links[i]) = "ValueError",
         valid_links |-> SelectSeq(links, is_valid),
         standard_url |-> standard_url,
         tokens |-> tokens,
         wc |-> SumRuns(tokens),
         low_alpha |-> LowAlphaRatio(page.text),
         text_hash |-> Sha1(page.text),
         host |-> Hostname(urlparse(standard_url))])))

\* lines 119-190 on globals G, for a page with facts f: the globals
\* afterwards, whether _save_stats() is called, and where the analysis ended
Analyze(G, page, f) ==
    LET marked == [G EXCEPT !.SEEN_URLS = @ \cup {f.standard_url}]
        longer == IsLonger(f.wc, G.LONGEST_PAGE_WORDS)
        recorded ==
            [marked EXCEPT
                !.CONTENT_HASHES = @ \cup {f.text_hash},
                !.PAGE_WORDCOUNT = RecordWordcount(@, f.standard_url, f.wc),
                !.LONGEST_PAGE_WORDS = IF longer THEN f.wc ELSE @,
                !.LONGEST_PAGE_URL = IF longer THEN f.standard_url ELSE @,
                !.GLOBAL_WORD_FREQ = CountWords(@, f.tokens),
                !.SUBDOMAIN_PAGECOUNT = IF InTopDomain(f.host) THEN AddCount(@, f.host, 1)
                                        ELSE @]
    IN  IF f.raised THEN [G |-> G, save |-> FALSE, end |-> "raised"]
        ELSE IF ~page.present \/ page.status # 200 \/ ~page.raw \/ ~page.content
        THEN [G |-> G, save |-> FALSE, end |-> "no_content"]
        ELSE IF NotHtml(page.ctype) THEN [G |-> G, save |-> FALSE, end |-> "not_html"]
        ELSE IF f.standard_url = None THEN [G |-> G, save |-> FALSE, end |-> "bad_url"]
        ELSE IF AlreadySeen(G.SEEN_URLS, f.standard_url)
             THEN [G |-> G, save |-> FALSE, end |-> "seen"]
        ELSE IF TooSparse(f.wc) THEN [G |-> marked, save |-> TRUE, end |-> "sparse"]
        ELSE IF TooLong(f.wc) THEN [G |-> marked, save |-> FALSE, end |-> "long"]
        ELSE IF f.low_alpha THEN [G |-> marked, save |-> FALSE, end |-> "low_alpha"]
        ELSE IF HashKnown(G.CONTENT_HASHES, f.text_hash)
             THEN [G |-> marked, save |-> TRUE, end |-> "duplicate"]
        ELSE [G |-> recorded, save |-> TRUE, end |-> "recorded"]

(***************************************************************************)
(* The pages of the sequential crawl                                       *)
(***************************************************************************)
Html == "text/html; charset=utf-8"

Page1 == Response("http://www.ics.uci.edu/a", 200, "http://www.ics.uci.edu/a", Html,
                  <<"b", "/b/", "http://www.ics.uci.edu/b#x", "http://evil.com/x",
                    "c;p/", "mailto:a@b.c", "">>, TextA)

Page2 == Response("http://www.ics.uci.edu/b#top", 200, "", "",
                  <<"//WWW.CS.UCI.EDU:80/x//y/", "http://www.ics.uci.edu/events/2024/04/",
                    "../up", "http://[::1]/z", "/x/y">>, TextA)

Page3 == Response("http://www.ics.uci.edu/old", 200, "HTTP://WWW.ICS.UCI.EDU:80//a/",
                  "application/xhtml+xml", <<"a", "a/", "a#1">>, TextB)

Page4 == Response("https://cs.uci.edu/short", 200, "https://cs.uci.edu/short", Html,
                  <<"https://cs.uci.edu/paper.pdf", "long?from=1">>, TextShort)

\* a link whose canonical form urlparse rejects
Page10 == Response("http://www.cs.uci.edu/v", 200, "http://www.cs.uci.edu/v", Html,
                   <<"http://[v1.a[b]/x">>, TextShort)

Page5 == Response("http://notuci.edu/c", 200, "http://notuci.edu/c", Html, << >>, TextC)

Page6 == Response("http://www.stat.uci.edu/huge", 200, "http://www.stat.uci.edu/huge", Html,
                  << >>, TextHuge)

Page7 == Response("http://www.stat.uci.edu/num", 200, "http://www.stat.uci.edu/num", Html,
                  <<"http://[::1/broken", "ok">>, TextNumeric)

Page8 == Response("http://www.stat.uci.edu/gone", 404, "http://www.stat.uci.edu/gone", Html,
                  <<"x">>, TextC)

Page9 == Response("http://www.informatics.uci.edu/doc", 200, "", "application/pdf",
                  <<"y">>, TextC)

PageIds == {"P1", "P2", "P3", "P4", "P5", "P6", "P7", "P8", "P9", "P10"}

Page(id) ==
    CASE id = "P1" -> Page1 [] id = "P2" -> Page2 [] id = "P3" -> Page3
      [] id = "P4" -> Page4 [] id = "P5" -> Page5 [] id = "P6" -> Page6
      [] id = "P7" -> Page7 [] id = "P8" -> Page8 [] id = "P9" -> Page9
      [] id = "P10" -> Page10

\* the facts of every page, computed once
PageFacts == [id \in PageIds |-> Facts(Page(id))]

(***************************************************************************)
(* The sequential crawl: one scraper() call at a time, the clock, and a    *)
(* restart of the process (the module is imported again).                  *)
(***************************************************************************)
MaxCalls == 2

MaxRestarts == 1

MaxTicks == 2

\* time.time() when the process starts
StartTime == 10

IoOutcomes == {"ok", "open_fails", "dump_fails"}

NoWorkers == << >>

NoCall == [op |-> "none", page |-> "", end |-> "", wrote |-> FALSE, n |-> 0, boots |-> 0]

NoSnapshot == [valid |-> FALSE, G |-> EmptyGlobals]

vars == <<SEEN_URLS, PAGE_WORDCOUNT, LONGEST_PAGE_URL, LONGEST_PAGE_WORDS, GLOBAL_WORD_FREQ,
          SUBDOMAIN_PAGECOUNT, PATH_FAMILY_COUNT, CONTENT_HASHES, last_save_ts, stats_file,
          now, phase, ret, call, saved, workers, url_in, url_out>>

SetGlobals(G) ==
    /\ SEEN_URLS' = G.SEEN_URLS
    /\ PAGE_WORDCOUNT' = G.PAGE_WORDCOUNT
    /\ LONGEST_PAGE_URL' = G.LONGEST_PAGE_URL
    /\ LONGEST_PAGE_WORDS' = G.LONGEST_PAGE_WORDS
    /\ GLOBAL_WORD_FREQ' = G.GLOBAL_WORD_FREQ
    /\ SUBDOMAIN_PAGECOUNT' = G.SUBDOMAIN_PAGECOUNT
    /\ PATH_FAMILY_COUNT' = G.PATH_FAMILY_COUNT
    /\ CONTENT_HASHES' = G.CONTENT_HASHES

\* the globals as lines 20-32 leave them
GlobalsEmpty ==
    /\ SEEN_URLS = {}
    /\ PAGE_WORDCOUNT = EmptyDict
    /\ LONGEST_PAGE_URL = None
    /\ LONGEST_PAGE_WORDS = 0
    /\ GLOBAL_WORD_FREQ = EmptyDict
    /\ SUBDOMAIN_PAGECOUNT = EmptyDict
    /\ PATH_FAMILY_COUNT = EmptyDict
    /\ CONTENT_HASHES = {}

\* no URL function is under study
NoUrlIn == [u |-> "", v |-> "", how |-> "none"]

NoUrlOut == [done |-> {}, std |-> "", std_v |-> "", again |-> "", valid |-> ""]

\* the process has imported the module and found no snapshot
Init ==
    /\ GlobalsEmpty
    /\ last_save_ts = 0
    /\ stats_file = FileMissing
    /\ now = StartTime
    /\ phase = "run"
    /\ ret = << >>
    /\ call = NoCall
    /\ saved = NoSnapshot
    /\ workers = NoWorkers
    /\ url_in = NoUrlIn
    /\ url_out = NoUrlOut

\* scraper(url, resp) as one step, its trailing _save_stats() included
Scraper(id, io) ==
    /\ phase = "run"
    /\ call.n < MaxCalls
    /\ \E a \in {Analyze(Globals, Page(id), PageFacts[id])} :
       \E s \in {IF a.save
                 THEN SaveStats(a.G, stats_file, last_save_ts, now, DefaultThrottle, io)
                 ELSE [file |-> stats_file, last |-> last_save_ts, wrote |-> FALSE]} :
           /\ SetGlobals(a.G)
           /\ stats_file' = s.file
           /\ last_save_ts' = s.last
           /\ ret' = IF a.end = "raised" THEN << >> ELSE PageFacts[id].valid_links
           /\ call' = [op |-> "scraper", page |-> id, end |-> a.end, wrote |-> s.wrote,
                       n |-> call.n + 1, boots |-> call.boots]
           /\ saved' = IF s.wrote THEN [valid |-> TRUE, G |-> a.G]
                       ELSE IF s.file # stats_file THEN NoSnapshot
                       ELSE saved
    /\ UNCHANGED <<now, phase, workers, url_in, url_out>>

\* the module is imported: lines 20-32 reset the globals, line 198 loads the
\* snapshot, and _save_stats has no _last_save_ts attribute yet
ImportModule ==
    /\ \E G \in {LoadStats(EmptyGlobals, stats_file)} : SetGlobals(G)
    /\ last_save_ts' = 0
    /\ phase' = "run"
    /\ ret' = << >>
    /\ call' = [op |-> "import", page |-> "", end |-> "", wrote |-> FALSE,
                n |-> call.n, boots |-> call.boots + 1]
    /\ UNCHANGED <<stats_file, now, saved, workers, url_in, url_out>>

\* the crawler process is started again
Restart ==
    /\ phase = "run"
    /\ call.boots < MaxRestarts
    /\ ImportModule

\* a second passes
Tick ==
    /\ now < StartTime + MaxTicks
    /\ now' = now + 1
    /\ UNCHANGED <<SEEN_URLS, PAGE_WORDCOUNT, LONGEST_PAGE_URL, LONGEST_PAGE_WORDS,
                   GLOBAL_WORD_FREQ, SUBDOMAIN_PAGECOUNT, PATH_FAMILY_COUNT, CONTENT_HASHES,
                   last_save_ts, stats_file, phase, ret, call, saved, workers, url_in,
                   url_out>>

Next ==
    \/ \E id \in PageIds, io \in IoOutcomes : Scraper(id, io)
    \/ Restart
    \/ Tick

Spec == Init /\ [][Next]_vars

(***************************************************************************)
(* The sequential crawl with failures: a statement inside the try block of *)
(* scraper() raises, and the handler of lines 192-193 returns valid_links. *)
(***************************************************************************)
\* where the exception is raised: BeautifulSoup or get_text (lines 146-148),
\* _tokenize (149), sha1 (165), GLOBAL_WORD_FREQ[w] += 1 (183), urlparse or
\* SUBDOMAIN_PAGECOUNT[host] += 1 (185-188)
FailurePoints == {"parse", "tokenize", "hash", "count", "host"}

\* the call on globals G gets as far as the failing statement
ReachesFailure(G, page, f, at) ==
    LET end == Analyze(G, page, f).end
    IN  CASE at \in {"parse", "tokenize"} ->
                end \in {"sparse", "long", "low_alpha", "duplicate", "recorded"}
          [] at = "hash" -> end \in {"duplicate", "recorded"}
          [] at = "count" -> end = "recorded" /\ \E i \in DOMAIN f.tokens : Counted(f.tokens[i].w)
          [] at = "host" -> end = "recorded"

\* lines 119-193 when the statement at raises: the globals as the statements
\* before it left them
AnalyzeFailing(G, page, f, at) ==
    LET marked == [G EXCEPT !.SEEN_URLS = @ \cup {f.standard_url}]
        longer == IsLonger(f.wc, G.LONGEST_PAGE_WORDS)
        stored ==
            [marked EXCEPT
                !.CONTENT_HASHES = @ \cup {f.text_hash},
                !.PAGE_WORDCOUNT = RecordWordcount(@, f.standard_url, f.wc),
                !.LONGEST_PAGE_WORDS = IF longer THEN f.wc ELSE @,
                !.LONGEST_PAGE_URL = IF longer THEN f.standard_url ELSE @]
    IN  CASE at \in {"parse", "tokenize", "hash"} -> marked
          [] at = "count" -> stored
          [] at = "host" -> [stored EXCEPT !.GLOBAL_WORD_FREQ = CountWords(@, f.tokens)]

\* scraper(url, resp) as one step when a statement of its analysis raises
ScraperFails(id, at) ==
    /\ phase = "run"
    /\ call.n < MaxCalls
    /\ ReachesFailure(Globals, Page(id), PageFacts[id], at)
    /\ SetGlobals(AnalyzeFailing(Globals, Page(id), PageFacts[id], at))
    /\ ret' = PageFacts[id].valid_links
    /\ call' = [op |-> "scraper", page |-> id, end |-> "failed", wrote |-> FALSE,
                n |-> call.n + 1, boots |-> call.boots]
    /\ UNCHANGED <<last_save_ts, stats_file, now, phase, saved, workers, url_in, url_out>>

NextFault ==
    \/ \E id \in PageIds, io \in IoOutcomes : Scraper(id, io)
    \/ \E id \in PageIds, at \in FailurePoints : ScraperFails(id, at)

SpecFault == Init /\ [][NextFault]_vars

(***************************************************************************)
(* Concurrent scraper() calls.  The crawler runs scraper() on several      *)
(* worker threads over the same module globals and the code takes no lock. *)
(* A step is one access to a global: a membership test, an add, a store, a *)
(* read or a write; x[k] += 1 is a read followed by a write.               *)
(***************************************************************************)
NWorkers == 2

Workers == 1..NWorkers

\* two pages with the same canonical URL (PP, PP2), two with the same text
\* under different URLs (PP, PS), and pages that differ in both
PageP == Response("http://www.ics.uci.edu/p", 200, "http://www.ics.uci.edu/p", Html,
                  << >>, TextP)

PageP2 == Response("http://www.ics.uci.edu/p/", 200, "http://www.ics.uci.edu/p/", Html,
                   << >>, TextP)

PageS == Response("http://www.ics.uci.edu/s", 200, "http://www.ics.uci.edu/s", Html,
                  << >>, TextP)

PageQ == Response("http://www.cs.uci.edu/q", 200, "http://www.cs.uci.edu/q", Html,
                  << >>, TextQ)

PageR == Response("http://www.ics.uci.edu/r", 200, "http://www.ics.uci.edu/r", Html,
                  << >>, TextR)

ConcPageOrder == <<"PP", "PP2", "PS", "PQ", "PR">>

ConcPageIds == Range(ConcPageOrder)

ConcPage(id) ==
    CASE id = "PP" -> PageP [] id = "PP2" -> PageP2 [] id = "PS" -> PageS
      [] id = "PQ" -> PageQ [] id = "PR" -> PageR

\* the tokens the loop of lines 178-183 increments, one per occurrence
RECURSIVE CountedWords(_)
CountedWords(rest) ==
    With(rest, LAMBDA tokens :
        IF tokens = << >> THEN << >>
        ELSE (IF Counted(Head(tokens).w)
              THEN [i \in 1..Head(tokens).n |-> Head(tokens).w] ELSE << >>)
             \o CountedWords(Tail(tokens)))

ConcFacts ==
    [id \in ConcPageIds |->
        With(Facts(ConcPage(id)), LAMBDA f :
            [standard_url |-> f.standard_url, wc |-> f.wc, text_hash |-> f.text_hash,
             host |-> f.host, words |-> CountedWords(f.tokens),
             sparse |-> TooSparse(f.wc), skipped |-> TooLong(f.wc) \/ f.low_alpha])]

\* a call that has passed lines 116-140 on page id and is about to test SEEN_URLS
Entered(id) == [pc |-> "l142", page |-> id, i |-> 1, tmp |-> 0, passed |-> {}]

\* the aggregates when the workers start: the sparse Page4 has just been
\* analysed and its _save_stats() has written the snapshot, so that the
\* calls of the workers fall inside the throttle window
StartGlobals == Analyze(EmptyGlobals, Page4, PageFacts["P4"]).G

\* the workers are interchangeable: they are numbered in the order of their pages
InitConc ==
    /\ SEEN_URLS = StartGlobals.SEEN_URLS
    /\ PAGE_WORDCOUNT = EmptyDict
    /\ LONGEST_PAGE_URL = None
    /\ LONGEST_PAGE_WORDS = 0
    /\ GLOBAL_WORD_FREQ = EmptyDict
    /\ SUBDOMAIN_PAGECOUNT = EmptyDict
    /\ PATH_FAMILY_COUNT = EmptyDict
    /\ CONTENT_HASHES = {}
    /\ last_save_ts = StartTime
    /\ stats_file = FileJson(SnapshotOf(StartGlobals))
    /\ now = StartTime
    /\ phase = "run"
    /\ ret = << >>
    /\ call = NoCall
    /\ saved = [valid |-> TRUE, G |-> StartGlobals]
    /\ \E order \in [Workers -> DOMAIN ConcPageOrder] :
            /\ \A w \in Workers : w + 1 \in Workers => order[w] <= order[w + 1]
            /\ workers = [w \in Workers |-> Entered(ConcPageOrder[order[w]])]
    /\ url_in = NoUrlIn
    /\ url_out = NoUrlOut

ConcFrame == UNCHANGED <<now, phase, ret, call, url_in, url_out>>

NoSave == UNCHANGED <<last_save_ts, stats_file, saved>>

\* worker w moves to pc
Goto(w, pc) == workers' = [workers EXCEPT ![w].pc = pc]

\* line 142: standard_url in SEEN_URLS
TestSeen(w) ==
    /\ workers[w].pc = "l142"
    /\ workers' = IF AlreadySeen(SEEN_URLS, ConcFacts[workers[w].page].standard_url)
                  THEN [workers EXCEPT ![w].pc = "done"]
                  ELSE [workers EXCEPT ![w].pc = "l144", ![w].passed = @ \cup {"seen"}]
    /\ UNCHANGED <<SEEN_URLS, PAGE_WORDCOUNT, LONGEST_PAGE_URL, LONGEST_PAGE_WORDS,
                   GLOBAL_WORD_FREQ, SUBDOMAIN_PAGECOUNT, PATH_FAMILY_COUNT, CONTENT_HASHES>>
    /\ NoSave /\ ConcFrame

\* line 144, then the thresholds of lines 146-163 on the call's own text
MarkSeen(w) ==
    /\ workers[w].pc = "l144"
    /\ SEEN_URLS' = SEEN_URLS \cup {ConcFacts[workers[w].page].standard_url}
    /\ Goto(w, IF ConcFacts[workers[w].page].sparse THEN "l190"
               ELSE IF ConcFacts[workers[w].page].skipped THEN "done"
               ELSE "l166")
    /\ UNCHANGED <<PAGE_WORDCOUNT, LONGEST_PAGE_URL, LONGEST_PAGE_WORDS,
                   GLOBAL_WORD_FREQ, SUBDOMAIN_PAGECOUNT, PATH_FAMILY_COUNT, CONTENT_HASHES>>
    /\ NoSave /\ ConcFrame

\* line 166: text_hash in CONTENT_HASHES
TestHash(w) ==
    /\ workers[w].pc = "l166"
    /\ workers' = IF HashKnown(CONTENT_HASHES, ConcFacts[workers[w].page].text_hash)
                  THEN [workers EXCEPT ![w].pc = "l190"]
                  ELSE [workers EXCEPT ![w].pc = "l169", ![w].passed = @ \cup {"hash"}]
    /\ UNCHANGED <<SEEN_URLS, PAGE_WORDCOUNT, LONGEST_PAGE_URL, LONGEST_PAGE_WORDS,
                   GLOBAL_WORD_FREQ, SUBDOMAIN_PAGECOUNT, PATH_FAMILY_COUNT, CONTENT_HASHES>>
    /\ NoSave /\ ConcFrame

\* line 169
AddHash(w) ==
    /\ workers[w].pc = "l169"
    /\ CONTENT_HASHES' = CONTENT_HASHES \cup {ConcFacts[workers[w].page].text_hash}
    /\ Goto(w, "l172")
    /\ UNCHANGED <<SEEN_URLS, PAGE_WORDCOUNT, LONGEST_PAGE_URL, LONGEST_PAGE_WORDS,
                   GLOBAL_WORD_FREQ, SUBDOMAIN_PAGECOUNT, PATH_FAMILY_COUNT>>
    /\ NoSave /\ ConcFrame

\* line 172
StoreWordcount(w) ==
    /\ workers[w].pc = "l172"
    /\ PAGE_WORDCOUNT' = RecordWordcount(PAGE_WORDCOUNT,
                                         ConcFacts[workers[w].page].standard_url,
                                         ConcFacts[workers[w].page].wc)
    /\ Goto(w, "l174")
    /\ UNCHANGED <<SEEN_URLS, LONGEST_PAGE_URL, LONGEST_PAGE_WORDS,
                   GLOBAL_WORD_FREQ, SUBDOMAIN_PAGECOUNT, PATH_FAMILY_COUNT, CONTENT_HASHES>>
    /\ NoSave /\ ConcFrame

\* line 174: wc > LONGEST_PAGE_WORDS
CompareLongest(w) ==
    /\ workers[w].pc = "l174"
    /\ Goto(w, IF IsLonger(ConcFacts[workers[w].page].wc, LONGEST_PAGE_WORDS)
               THEN "l175" ELSE "l178")
    /\ UNCHANGED <<SEEN_URLS, PAGE_WORDCOUNT, LONGEST_PAGE_URL, LONGEST_PAGE_WORDS,
                   GLOBAL_WORD_FREQ, SUBDOMAIN_PAGECOUNT, PATH_FAMILY_COUNT, CONTENT_HASHES>>
    /\ NoSave /\ ConcFrame

\* line 175
StoreLongestWords(w) ==
    /\ workers[w].pc = "l175"
    /\ LONGEST_PAGE_WORDS' = ConcFacts[workers[w].page].wc
    /\ Goto(w, "l176")
    /\ UNCHANGED <<SEEN_URLS, PAGE_WORDCOUNT, LONGEST_PAGE_URL,
                   GLOBAL_WORD_FREQ, SUBDOMAIN_PAGECOUNT, PATH_FAMILY_COUNT, CONTENT_HASHES>>
    /\ NoSave /\ ConcFrame

\* line 176
StoreLongestUrl(w) ==
    /\ workers[w].pc = "l176"
    /\ LONGEST_PAGE_URL' = ConcFacts[workers[w].page].standard_url
    /\ Goto(w, "l178")
    /\ UNCHANGED <<SEEN_URLS, PAGE_WORDCOUNT, LONGEST_PAGE_WORDS,
                   GLOBAL_WORD_FREQ, SUBDOMAIN_PAGECOUNT, PATH_FAMILY_COUNT, CONTENT_HASHES>>
    /\ NoSave /\ ConcFrame

\* counter[k], a missing key reading as 0
ReadCount(counter, k) == IF k \in DOMAIN counter THEN counter[k] ELSE 0

\* counter[k] = n
WriteCount(counter, k, n) == [x \in DOMAIN counter \cup {k} |-> IF x = k THEN n ELSE counter[x]]

\* lines 178-183, the read of GLOBAL_WORD_FREQ[w] for the next counted token;
\* after the last token, the host test of line 187 and the read of line 188
ReadWordFreq(w) ==
    /\ workers[w].pc = "l178"
    /\ workers' =
         IF workers[w].i <= Len(ConcFacts[workers[w].page].words)
         THEN [workers EXCEPT
                 ![w].pc = "l183",
                 ![w].tmp = ReadCount(GLOBAL_WORD_FREQ,
                                      ConcFacts[workers[w].page].words[workers[w].i])]
         ELSE IF InTopDomain(ConcFacts[workers[w].page].host)
         THEN [workers EXCEPT
                 ![w].pc = "l188",
                 ![w].tmp = ReadCount(SUBDOMAIN_PAGECOUNT, ConcFacts[workers[w].page].host)]
         ELSE [workers EXCEPT ![w].pc = "l190"]
    /\ UNCHANGED <<SEEN_URLS, PAGE_WORDCOUNT, LONGEST_PAGE_URL, LONGEST_PAGE_WORDS,
                   GLOBAL_WORD_FREQ, SUBDOMAIN_PAGECOUNT, PATH_FAMILY_COUNT, CONTENT_HASHES>>
    /\ NoSave /\ ConcFrame

\* line 183, the write of GLOBAL_WORD_FREQ[w]
WriteWordFreq(w) ==
    /\ workers[w].pc = "l183"
    /\ GLOBAL_WORD_FREQ' = WriteCount(GLOBAL_WORD_FREQ,
                                      ConcFacts[workers[w].page].words[workers[w].i],
                                      workers[w].tmp + 1)
    /\ workers' = [workers EXCEPT ![w].pc = "l178", ![w].i = @ + 1, ![w].tmp = 0]
    /\ UNCHANGED <<SEEN_URLS, PAGE_WORDCOUNT, LONGEST_PAGE_URL, LONGEST_PAGE_WORDS,
                   SUBDOMAIN_PAGECOUNT, PATH_FAMILY_COUNT, CONTENT_HASHES>>
    /\ NoSave /\ ConcFrame

\* line 188, the write of SUBDOMAIN_PAGECOUNT[host]
WriteSubdomain(w) ==
    /\ workers[w].pc = "l188"
    /\ SUBDOMAIN_PAGECOUNT' = WriteCount(SUBDOMAIN_PAGECOUNT, ConcFacts[workers[w].page].host,
                                         workers[w].tmp + 1)
    /\ workers' = [workers EXCEPT ![w].pc = "l190", ![w].tmp = 0]
    /\ UNCHANGED <<SEEN_URLS, PAGE_WORDCOUNT, LONGEST_PAGE_URL, LONGEST_PAGE_WORDS,
                   GLOBAL_WORD_FREQ, PATH_FAMILY_COUNT, CONTENT_HASHES>>
    /\ NoSave /\ ConcFrame

\* _save_stats() of lines 152, 167 and 190, and the return
SaveAndReturn(w, io) ==
    /\ workers[w].pc = "l190"
    /\ \E s \in {SaveStats(Globals, stats_file, last_save_ts, now, DefaultThrottle, io)} :
           /\ stats_file' = s.file
           /\ last_save_ts' = s.last
           /\ saved' = IF s.wrote THEN [valid |-> TRUE, G |-> Globals]
                       ELSE IF s.file # stats_file THEN NoSnapshot
                       ELSE saved
    /\ Goto(w, "done")
    /\ UNCHANGED <<SEEN_URLS, PAGE_WORDCOUNT, LONGEST_PAGE_URL, LONGEST_PAGE_WORDS,
                   GLOBAL_WORD_FREQ, SUBDOMAIN_PAGECOUNT, PATH_FAMILY_COUNT, CONTENT_HASHES>>
    /\ ConcFrame

NextConc ==
    \E w \in Workers :
        \/ TestSeen(w)
        \/ MarkSeen(w)
        \/ TestHash(w)
        \/ AddHash(w)
        \/ StoreWordcount(w)
        \/ CompareLongest(w)
        \/ StoreLongestWords(w)
        \/ StoreLongestUrl(w)
        \/ ReadWordFreq(w)
        \/ WriteWordFreq(w)
        \/ WriteSubdomain(w)
        \/ \E io \in IoOutcomes : SaveAndReturn(w, io)

SpecConc == InitConc /\ [][NextConc]_vars

(***************************************************************************)
(* The import on a snapshot file the process finds: none, one that is not  *)
(* JSON, or a JSON object in which each field is as _save_stats writes it  *)
(* or malformed.                                                           *)
(***************************************************************************)
\* the aggregates after Page1 and Page5 were recorded
SampleGlobals ==
    Analyze(Analyze(EmptyGlobals, Page1, PageFacts["P1"]).G, Page5, PageFacts["P5"]).G

WellFormed == SnapshotOf(SampleGlobals)

\* per field, a JSON value the conversion of _load_stats raises on
Malformations ==
    [seen_urls |-> J("int", 7),
     page_wordcount |-> J("dictstr", [x \in {"http://www.ics.uci.edu/a"} |-> "abc"]),
     longest_page_url |-> J("str", "http://www.ics.uci.edu/a"),
     longest_page_words |-> J("str", "abc"),
     global_word_freq |-> J("int", 1),
     subdomain_pagecount |-> J("list", <<"www.ics.uci.edu">>),
     path_family_count |-> J("int", 1),
     content_hashes |-> JNull]

SnapshotFields == DOMAIN NoData

\* the documents: every field well-formed or malformed or missing
Documents ==
    {d \in [SnapshotFields -> {"good", "bad", "absent"}] :
        Cardinality({k \in SnapshotFields : d[k] = "absent"}) <= 1}

DocumentData(d) ==
    [k \in SnapshotFields |->
        CASE d[k] = "good" -> WellFormed[k]
          [] d[k] = "bad" -> Malformations[k]
          [] OTHER -> Absent]

SnapshotFiles == {FileMissing, FileGarbage} \cup {FileJson(DocumentData(d)) : d \in Documents}

InitLoad ==
    /\ GlobalsEmpty
    /\ last_save_ts = 0
    /\ stats_file \in SnapshotFiles
    /\ now = StartTime
    /\ phase = "import"
    /\ ret = << >>
    /\ call = NoCall
    /\ saved = NoSnapshot
    /\ workers = NoWorkers
    /\ url_in = NoUrlIn
    /\ url_out = NoUrlOut

\* line 198 when the process starts
FirstImport ==
    /\ phase = "import"
    /\ ImportModule

NextLoad == FirstImport

SpecLoad == InitLoad /\ [][NextLoad]_vars

(***************************************************************************)
(* The URL functions on their own: a URL is written from its components,   *)
(* a second URL differs from it in one respect, and _standard_url and      *)
(* is_valid are applied.                                                   *)
(***************************************************************************)
UrlSchemes == {"http", "https"}

UrlHosts == {"www.ics.uci.edu", "WWW.ICS.UCI.EDU", "[::1]"}

UrlPorts == {"", ":8080"}

UrlPaths == {"", "/", "/a", "/a/b", "/a;p", "/events/x.pdf"}

UrlQueries == {"", "?q=1"}

UrlFragments == {"", "#top"}

UrlComponents ==
    [scheme : UrlSchemes, host : UrlHosts, port : UrlPorts, path : UrlPaths,
     query : UrlQueries, fragment : UrlFragments]

\* the URL as it is written
UrlText(c) == c.scheme \o "://" \o c.host \o c.port \o c.path \o c.query \o c.fragment

\* every "/" of the path written twice
RECURSIVE DoubleSlashes(_)
DoubleSlashes(p) ==
    With(p, LAMBDA path :
        IF path = "" THEN ""
        ELSE (IF Head(path) = "/" THEN "//" ELSE Head(path)) \o DoubleSlashes(Tail(path)))

UrlVariations == {"fragment", "host_case", "default_port", "trailing_slash", "slash_runs"}

\* the other spellings of c that differ from it in the one respect how
Variants(c, how) ==
    CASE how = "fragment" -> {[c EXCEPT !.fragment = f] : f \in UrlFragments \ {c.fragment}}
      [] how = "host_case" ->
            {[c EXCEPT !.host = h] : h \in {x \in UrlHosts \ {c.host} : Lower(x) = Lower(c.host)}}
      [] how = "default_port" ->
            IF c.port # "" THEN {}
            ELSE {[c EXCEPT !.port = IF c.scheme = "http" THEN ":80" ELSE ":443"]}
      [] how = "trailing_slash" ->
            IF c.path \in {"", "/"} THEN {} ELSE {[c EXCEPT !.path = c.path \o "/"]}
      [] how = "slash_runs" ->
            IF c.path = "" THEN {} ELSE {[c EXCEPT !.path = DoubleSlashes(c.path)]}

InitUrl ==
    /\ GlobalsEmpty
    /\ last_save_ts = 0
    /\ stats_file = FileMissing
    /\ now = StartTime
    /\ phase = "url"
    /\ ret = << >>
    /\ call = NoCall
    /\ saved = NoSnapshot
    /\ workers = NoWorkers
    /\ \E c \in UrlComponents : \E how \in UrlVariations : \E v \in Variants(c, how) :
            url_in = [u |-> UrlText(c), v |-> UrlText(v), how |-> how]
    /\ url_out = NoUrlOut

UrlFrame ==
    UNCHANGED <<SEEN_URLS, PAGE_WORDCOUNT, LONGEST_PAGE_URL, LONGEST_PAGE_WORDS,
                GLOBAL_WORD_FREQ, SUBDOMAIN_PAGECOUNT, PATH_FAMILY_COUNT, CONTENT_HASHES,
                last_save_ts, stats_file, now, phase, ret, call, saved, workers, url_in>>

\* _standard_url(u) and _standard_url(v)
ApplyStandardUrl ==
    /\ phase = "url"
    /\ "std" \notin url_out.done
    /\ url_out' = [url_out EXCEPT !.done = @ \cup {"std"},
                                  !.std = StandardUrl(url_in.u),
                                  !.std_v = StandardUrl(url_in.v)]
    /\ UrlFrame

\* _standard_url(_standard_url(u)) for an accepted u
ApplyStandardUrlAgain ==
    /\ phase = "url"
    /\ "std" \in url_out.done
    /\ "again" \notin url_out.done
    /\ url_out.std # None
    /\ url_out' = [url_out EXCEPT !.done = @ \cup {"again"}, !.again = StandardUrl(url_out.std)]
    /\ UrlFrame

\* is_valid(u)
ApplyIsValid ==
    /\ phase = "url"
    /\ "valid" \notin url_out.done
    /\ url_out' = [url_out EXCEPT !.done = @ \cup {"valid"}, !.valid = IsValidOutcome(url_in.u)]
    /\ UrlFrame

NextUrl == ApplyStandardUrl \/ ApplyStandardUrlAgain \/ ApplyIsValid

SpecUrl == InitUrl /\ [][NextUrl]_vars

(***************************************************************************)
(* is_valid on its own: a URL is written from a host, a path and a query   *)
(* and is_valid is applied to it.                                          *)
(***************************************************************************)
PolicySchemes == {"http", "https"}

PolicyHosts ==
    {"www.ics.uci.edu", "ics.uci.edu", "foo.ics.uci.edu", "WWW.STAT.UCI.EDU",
     "notics.uci.edu", "evil.com", "[::1"}

PolicyPaths ==
    {"", "/a", "/events", "/events/", "/events/2024/04", "/events/tag/seminar", "/event/42",
     "/events/week", "/news/2024-04", "/news/2024-04/post", "/news/2024/04/post", "/a/b.pdf"}

PolicyQueries ==
    {"", "?q=1", "?ical=1", "?tribe_paged=2", "?tribe-bar-date=2024-04", "?tribe-bar-search=ai"}

PolicyComponents ==
    [scheme : PolicySchemes, host : PolicyHosts, port : {""}, path : PolicyPaths,
     query : PolicyQueries, fragment : {""}]

InitValid ==
    /\ GlobalsEmpty
    /\ last_save_ts = 0
    /\ stats_file = FileMissing
    /\ now = StartTime
    /\ phase = "url"
    /\ ret = << >>
    /\ call = NoCall
    /\ saved = NoSnapshot
    /\ workers = NoWorkers
    /\ \E c \in PolicyComponents : url_in = [u |-> UrlText(c), v |-> "", how |-> "is_valid", c |-> c]
    /\ url_out = NoUrlOut

NextValid == ApplyIsValid

SpecValid == InitValid /\ [][NextValid]_vars

(***************************************************************************)
(* extract_next_links on its own: a fetch result with a few anchors is     *)
(* handed to the extractor.                                                *)
(***************************************************************************)
MaxHrefs == 4

LinkBase == "http://www.ics.uci.edu/d/"

\* hrefs "a" and "a#x" have one canonical form, "mailto:" is rejected by
\* _standard_url, and urljoin raises ValueError on the unclosed bracket
LinkHrefs == {"a", "b/", "a#x", "/c", "mailto:a@b.c", "http://[::1/broken"}

RECURSIVE SeqsUpTo(_, _)
SeqsUpTo(S, n) ==
    IF n = 0 THEN {<< >>}
    ELSE With(SeqsUpTo(S, n - 1), LAMBDA shorter :
             shorter \cup {Append(q, x) : q \in {r \in shorter : Len(r) = n - 1}, x \in S})

\* a page that was fetched, one that was not found, one without content
LinkFetches ==
    {[status |-> 200, content |-> TRUE], [status |-> 404, content |-> TRUE],
     [status |-> 200, content |-> FALSE]}

LinkPages ==
    {[Response(LinkBase, f.status, LinkBase, Html, hrefs, NoText) EXCEPT !.content = f.content] :
        f \in LinkFetches, hrefs \in SeqsUpTo(LinkHrefs, MaxHrefs)}

InitLinks ==
    /\ GlobalsEmpty
    /\ last_save_ts = 0
    /\ stats_file = FileMissing
    /\ now = StartTime
    /\ phase = "links"
    /\ ret = << >>
    /\ \E page \in LinkPages : call = [NoCall EXCEPT !.page = page]
    /\ saved = NoSnapshot
    /\ workers = NoWorkers
    /\ url_in = NoUrlIn
    /\ url_out = NoUrlOut

\* links = extract_next_links(url, resp)
ExtractNextLinks ==
    /\ phase = "links"
    /\ call.op = "none"
    /\ ret' = extract_next_links(call.page)
    /\ call' = [call EXCEPT !.op = "extract"]
    /\ UNCHANGED <<SEEN_URLS, PAGE_WORDCOUNT, LONGEST_PAGE_URL, LONGEST_PAGE_WORDS,
                   GLOBAL_WORD_FREQ, SUBDOMAIN_PAGECOUNT, PATH_FAMILY_COUNT, CONTENT_HASHES,
                   last_save_ts, stats_file, now, phase, saved, workers, url_in, url_out>>

NextLinks == ExtractNextLinks

SpecLinks == InitLinks /\ [][NextLinks]_vars

(***************************************************************************)
(* Properties of the sequential crawl                                      *)
(***************************************************************************)
\* the step is a scraper() call on page id
ScraperStepOn(id) == call'.op = "scraper" /\ call'.n = call.n + 1 /\ call'.page = id

\* the call on page id gets as far as the SEEN_URLS test of line 142
ReachesAnalysis(id) ==
    /\ ~PageFacts[id].raised
    /\ Page(id).status = 200
    /\ ~NotHtml(Page(id).ctype)
    /\ PageFacts[id].standard_url # None

\* the text of page id passes the token-count and alphabetic-ratio thresholds
PassesThresholds(id) ==
    /\ PageFacts[id].wc >= MinTokens
    /\ PageFacts[id].wc <= MaxTokens
    /\ ~PageFacts[id].low_alpha

\* C1: a scraper() call on a page with a canonical URL not seen before, whose
\* text passes the thresholds and has the fingerprint of a page already
\* recorded, adds nothing to CONTENT_HASHES, gives the URL no entry in
\* PAGE_WORDCOUNT and adds no increment to GLOBAL_WORD_FREQ; so CONTENT_HASHES
\* holds one entry per recorded page.
C1_SameTextRecordedOnce ==
    /\ [](Cardinality(CONTENT_HASHES) = Cardinality(DOMAIN PAGE_WORDCOUNT))
    /\ [][\A id \in PageIds :
            ( /\ ScraperStepOn(id)
              /\ ReachesAnalysis(id)
              /\ PassesThresholds(id)
              /\ PageFacts[id].standard_url \notin SEEN_URLS
              /\ PageFacts[id].text_hash \in CONTENT_HASHES )
            => /\ CONTENT_HASHES' = CONTENT_HASHES
               /\ PAGE_WORDCOUNT' = PAGE_WORDCOUNT
               /\ PageFacts[id].standard_url \notin DOMAIN PAGE_WORDCOUNT'
               /\ GLOBAL_WORD_FREQ' = GLOBAL_WORD_FREQ]_vars

\* Page1 was recorded and Page2, the same text under another URL, came next
C1_Witness ==
    /\ call.op = "scraper" /\ call.page = "P2" /\ call.n = 2
    /\ PageFacts["P1"].text_hash = PageFacts["P2"].text_hash
    /\ PageFacts["P1"].standard_url # PageFacts["P2"].standard_url
    /\ DOMAIN PAGE_WORDCOUNT = {PageFacts["P1"].standard_url}
    /\ PageFacts["P2"].standard_url \in SEEN_URLS
    /\ CONTENT_HASHES = {PageFacts["P1"].text_hash}

\* C5: a scraper() call that reaches the analysis of a page not seen before,
\* with fewer than 100 tokens, adds the canonical URL to SEEN_URLS and changes
\* no other aggregate.
C5_SparsePageOnlyMarksSeen ==
    [][\A id \in PageIds :
            ( /\ ScraperStepOn(id)
              /\ ReachesAnalysis(id)
              /\ PageFacts[id].standard_url \notin SEEN_URLS
              /\ PageFacts[id].wc < MinTokens )
            => /\ SEEN_URLS' = SEEN_URLS \cup {PageFacts[id].standard_url}
               /\ UNCHANGED <<PAGE_WORDCOUNT, LONGEST_PAGE_URL, LONGEST_PAGE_WORDS,
                              GLOBAL_WORD_FREQ, SUBDOMAIN_PAGECOUNT, PATH_FAMILY_COUNT,
                              CONTENT_HASHES>>]_vars

\* the 99-token Page4 was analysed after another page had been recorded
C5_Witness ==
    /\ call.op = "scraper" /\ call.page = "P4" /\ call.n = 2
    /\ PageFacts["P4"].wc = 99
    /\ PageFacts["P4"].standard_url \in SEEN_URLS
    /\ PageFacts["P4"].standard_url \notin DOMAIN PAGE_WORDCOUNT
    /\ PAGE_WORDCOUNT # EmptyDict
    /\ Cardinality(CONTENT_HASHES) = 1

\* C6: when a _save_stats() has written the snapshot, _load_stats() on that
\* file yields the aggregates as they were at the save: right after the
\* writing call, and when the process is started again on the file.
C6_SnapshotRoundTrip ==
    /\ (call.op = "scraper" /\ call.wrote) => LoadStats(EmptyGlobals, stats_file) = Globals
    /\ (call.op = "import" /\ saved.valid) => Globals = saved.G

\* a restart on a snapshot that holds a recorded page
C6_Witness ==
    /\ call.op = "import" /\ saved.valid
    /\ PAGE_WORDCOUNT # EmptyDict
    /\ LONGEST_PAGE_URL # None
    /\ GLOBAL_WORD_FREQ # EmptyDict
    /\ SUBDOMAIN_PAGECOUNT # EmptyDict
    /\ CONTENT_HASHES # {}

\* C8: every element u of a list scraper() returns satisfies
\* _standard_url(u) == u.
C8_ReturnedLinksCanonical ==
    (call.op = "scraper" /\ call.end # "raised")
        => \A i \in DOMAIN ret : StandardUrl(ret[i]) = ret[i]

\* what does hold of the returned list: no duplicates, is_valid accepts
\* every element, and the order is that of the first occurrences
ReturnedLinksDistinctValid ==
    (call.op = "scraper" /\ call.end # "raised")
        => /\ \A i, j \in DOMAIN ret : ret[i] = ret[j] => i = j
           /\ \A i \in DOMAIN ret : is_valid(ret[i])

(***************************************************************************)
(* Properties of _standard_url                                             *)
(***************************************************************************)
\* C9: for every u that _standard_url accepts,
\* _standard_url(_standard_url(u)) == _standard_url(u).
C9_StandardUrlIdempotent ==
    "again" \in url_out.done => url_out.again = url_out.std

\* C10: two accepted URLs that differ only in the fragment, the letter case
\* of the host, the presence of the scheme's default port, one trailing slash
\* on a non-root path, or runs of slashes in the path, have the same
\* _standard_url.
C10_SpellingsAgree ==
    ("std" \in url_out.done /\ url_out.std # None /\ url_out.std_v # None)
        => url_out.std = url_out.std_v

(***************************************************************************)
(* Properties of _load_stats                                               *)
(***************************************************************************)
\* the file is not a JSON object, or some conversion of lines 73-82 raises
Malformed(f) ==
    \/ f.kind = "garbage"
    \/ /\ f.kind = "json"
       /\ \/ SetRaises(f.data.seen_urls)
          \/ IntDictRaises(f.data.page_wordcount)
          \/ IntRaises(f.data.longest_page_words)
          \/ CounterRaises(f.data.global_word_freq)
          \/ IntDictRaises(f.data.subdomain_pagecount)
          \/ CounterRaises(f.data.path_family_count)
          \/ SetRaises(f.data.content_hashes)

\* C7: after _load_stats() on a missing file or on a file malformed at any
\* field, every aggregate is as lines 20-32 define it.
C7_MalformedLoadsEmpty ==
    (call.op = "import" /\ (stats_file.kind = "missing" \/ Malformed(stats_file)))
        => Globals = EmptyGlobals

(***************************************************************************)
(* Properties of concurrent scraper() calls                                *)
(***************************************************************************)
AllDone == \A w \in Workers : workers[w].pc = "done"

UrlOfWorker(w) == ConcFacts[workers[w].page].standard_url

HashOfWorker(w) == ConcFacts[workers[w].page].text_hash

\* the workers' pages are fresh and differ pairwise in canonical URL and text
DistinctFreshPages ==
    /\ \A w \in Workers : UrlOfWorker(w) \notin StartGlobals.SEEN_URLS
    /\ \A w1, w2 \in Workers :
            w1 # w2 => UrlOfWorker(w1) # UrlOfWorker(w2) /\ HashOfWorker(w1) # HashOfWorker(w2)

\* C2: when the workers have run scraper() on pairwise distinct fresh pages
\* that pass the filters, PAGE_WORDCOUNT has one record per worker, under the
\* workers' URLs, and CONTENT_HASHES has one entry per worker, whatever the
\* interleaving was.
C2_DistinctPagesAllRecorded ==
    (Len(workers) = NWorkers /\ AllDone /\ DistinctFreshPages)
        => /\ DOMAIN PAGE_WORDCOUNT = {UrlOfWorker(w) : w \in Workers}
           /\ Cardinality(DOMAIN PAGE_WORDCOUNT) = NWorkers
           /\ \A w \in Workers : PAGE_WORDCOUNT[UrlOfWorker(w)] = ConcFacts[workers[w].page].wc
           /\ CONTENT_HASHES = {HashOfWorker(w) : w \in Workers}
           /\ Cardinality(CONTENT_HASHES) = NWorkers

\* all workers have returned from distinct fresh pages
C2_Witness ==
    /\ Len(workers) = NWorkers /\ AllDone /\ DistinctFreshPages
    /\ Cardinality(DOMAIN PAGE_WORDCOUNT) = NWorkers

\* C3: of two concurrent scraper() calls for the same canonical URL at most
\* one passes the test of line 142, and of two calls for pages with the same
\* fingerprint at most one passes the test of line 166.
C3_CheckThenActAtomic ==
    \A w1, w2 \in DOMAIN workers :
        w1 # w2 =>
            /\ UrlOfWorker(w1) = UrlOfWorker(w2)
                  => ~("seen" \in workers[w1].passed /\ "seen" \in workers[w2].passed)
            /\ HashOfWorker(w1) = HashOfWorker(w2)
                  => ~("hash" \in workers[w1].passed /\ "hash" \in workers[w2].passed)

\* the largest word count recorded, 0 when there is none
MaxWordcount ==
    IF DOMAIN PAGE_WORDCOUNT = {} THEN 0
    ELSE CHOOSE m \in {PAGE_WORDCOUNT[u] : u \in DOMAIN PAGE_WORDCOUNT} :
            \A u \in DOMAIN PAGE_WORDCOUNT : PAGE_WORDCOUNT[u] <= m

\* C4: when the concurrent scraper() calls have completed, LONGEST_PAGE_WORDS
\* is the largest word count in PAGE_WORDCOUNT and LONGEST_PAGE_URL is a URL
\* recorded with that word count.
C4_LongestIsMaximum ==
    (Len(workers) = NWorkers /\ AllDone /\ DOMAIN PAGE_WORDCOUNT # {})
        => /\ LONGEST_PAGE_WORDS = MaxWordcount
           /\ LONGEST_PAGE_URL \in DOMAIN PAGE_WORDCOUNT
           /\ PAGE_WORDCOUNT[LONGEST_PAGE_URL] = LONGEST_PAGE_WORDS

(***************************************************************************)
(* Properties of is_valid                                                  *)
(***************************************************************************)
\* is_valid has been applied to the URL and has returned
IsValidReturned == "valid" \in url_out.done /\ url_out.valid \in {"True", "False"}

\* the dot-separated labels of a host
RECURSIVE Labels(_)
Labels(h) ==
    With(h, LAMBDA host :
    With(Find(host, "."), LAMBDA dot :
        IF dot = 0 THEN <<host>>
        ELSE <<Before(host, dot)>> \o Labels(From(host, dot + 1))))

\* the labels of the host end with the labels of an allowed domain
WithinAllowedDomain(host) ==
    \E i \in DOMAIN ALLOWED_HOST_SUFFIXES :
        LET h == Labels(Lower(host))
            d == Labels(ALLOWED_HOST_SUFFIXES[i])
        IN  /\ Len(h) >= Len(d)
            /\ SubSeq(h, Len(h) - Len(d) + 1, Len(h)) = d

\* a path and a query that no other rule of is_valid rejects
PlainPathAndQuery(c) == c.path \in {"", "/a"} /\ c.query \in {"", "?q=1"}

\* C11: is_valid returns False for every URL whose host is neither an allowed
\* domain nor a dot-boundary subdomain of one (evil.com, notics.uci.edu), and
\* the host check passes for the allowed domains and their subdomains
\* (foo.ics.uci.edu, www.ics.uci.edu): such a URL with a plain path and query
\* is accepted.
C11_HostOnDotBoundary ==
    IsValidReturned =>
        /\ ~WithinAllowedDomain(url_in.c.host) => url_out.valid = "False"
        /\ WithinAllowedDomain(url_in.c.host) /\ PlainPathAndQuery(url_in.c)
               => url_out.valid = "True"

C11_Witness ==
    /\ IsValidReturned
    /\ url_in.c.host = "notics.uci.edu"
    /\ PlainPathAndQuery(url_in.c)
    /\ url_out.valid = "False"

C11_WitnessSubdomain ==
    /\ IsValidReturned
    /\ url_in.c.host = "foo.ics.uci.edu"
    /\ url_out.valid = "True"

\* the URL is its own canonical form
IsCanonical(u) == StandardUrl(u) = u

\* the path has a segment below an events or event segment
UnderEventsRoot(path) ==
    LET s == Segments(Lower(path))
    IN  \E i \in DOMAIN s : s[i] \in {"events", "event"} /\ i < Len(s)

\* the keys of the parameters of a query written after "?"
RECURSIVE QueryKeys(_)
QueryKeys(q) ==
    With(q, LAMBDA query :
    With(CutAt(query, "&"), LAMBDA cut :
        IF query = "" THEN {}
        ELSE {CutAt(cut.head, "=").head} \cup QueryKeys(cut.tail)))

\* the query asks for calendar navigation
CalendarQuery(query) ==
    \/ Contains(Lower(query), "ical=1")
    \/ \E k \in QueryKeys(Lower(query)) : StartsWith(k, "tribe") \/ Contains(k, "bar-date")

\* C12: is_valid returns False for every canonical URL of a calendar trap
\* shape: a path below an events root (/events/2024/04, /events/tag/seminar)
\* or a query with ical=1, a key prefixed tribe, or a bar-date parameter.
C12_CalendarTrapsRejected ==
    /\ IsValidReturned
    /\ IsCanonical(url_in.u)
    /\ UnderEventsRoot(url_in.c.path) \/ CalendarQuery(From(url_in.c.query, 2))
    => url_out.valid = "False"

(***************************************************************************)
(* Properties of extract_next_links                                        *)
(***************************************************************************)
\* the canonical form of each hyperlink target of the page, "" for a target
\* that has none
CanonicalTargets(page) ==
    [i \in DOMAIN page.hrefs |-> LinkOf(BaseUrl(page), page.hrefs[i]).url]

\* the elements of s at the positions of their first occurrence, in order
FirstOccurrences(s) ==
    LET first == {i \in DOMAIN s : \A j \in 1..(i - 1) : s[j] # s[i]}
    IN  [k \in 1..Cardinality(first) |->
            s[CHOOSE i \in first : Cardinality({j \in first : j < i}) = k - 1]]

\* C13: extract_next_links returns the canonical forms of the hyperlink
\* targets of the page in order of first occurrence, later duplicates removed,
\* without the targets that _standard_url rejects, and the empty list when
\* the status is not 200 or the content is missing.
C13_LinksInFirstOccurrenceOrder ==
    call.op = "extract" =>
        ret = IF call.page.status # 200 \/ ~call.page.content THEN << >>
              ELSE FirstOccurrences(SelectSeq(CanonicalTargets(call.page), LAMBDA x : x # ""))

\* the same on the pages where resolving every target succeeds
AllTargetsResolve(page) ==
    \A i \in DOMAIN page.hrefs : LinkOf(BaseUrl(page), page.hrefs[i]).ok

LinksOfResolvablePages ==
    call.op = "extract" /\ AllTargetsResolve(call.page) => C13_LinksInFirstOccurrenceOrder

(***************************************************************************)
(* Properties of the aggregates over a sequential crawl                    *)
(***************************************************************************)
\* C14: a scraper() call on a page whose canonical URL is already in
\* SEEN_URLS leaves every aggregate unchanged, whether the URL was recorded or
\* was marked seen by a call that was then filtered out; and no scraper()
\* call changes or removes an entry of PAGE_WORDCOUNT.
C14_SeenUrlNeverReanalyzed ==
    [][\A id \in PageIds :
            ScraperStepOn(id) =>
                /\ PageFacts[id].standard_url \in SEEN_URLS
                       => UNCHANGED <<SEEN_URLS, PAGE_WORDCOUNT, LONGEST_PAGE_URL,
                                      LONGEST_PAGE_WORDS, GLOBAL_WORD_FREQ,
                                      SUBDOMAIN_PAGECOUNT, PATH_FAMILY_COUNT, CONTENT_HASHES>>
                /\ \A u \in DOMAIN PAGE_WORDCOUNT :
                       /\ u \in DOMAIN PAGE_WORDCOUNT'
                       /\ PAGE_WORDCOUNT'[u] = PAGE_WORDCOUNT[u]]_vars

\* Page3, a longer text under the canonical URL of Page1, came after Page1
C14_Witness ==
    /\ call.op = "scraper" /\ call.page = "P3" /\ call.end = "seen"
    /\ PageFacts["P3"].standard_url = PageFacts["P1"].standard_url
    /\ PageFacts["P3"].wc > PageFacts["P1"].wc
    /\ PAGE_WORDCOUNT = RecordWordcount(EmptyDict, PageFacts["P1"].standard_url, PageFacts["P1"].wc)

\* Page4 was marked seen, filtered out as too sparse, and fetched again
C14_WitnessFiltered ==
    /\ call.op = "scraper" /\ call.page = "P4" /\ call.end = "seen"
    /\ PageFacts["P4"].standard_url \in SEEN_URLS
    /\ PAGE_WORDCOUNT = EmptyDict

\* C15: in a sequential crawl from the empty state LONGEST_PAGE_WORDS is the
\* largest word count in PAGE_WORDCOUNT, 0 when there is none, and
\* LONGEST_PAGE_URL is the earliest-recorded URL with that count: the pointer
\* names a URL recorded with the maximum, and a scraper() call moves it only
\* to the URL it records, and only when that URL's count exceeds every count
\* recorded before (a tie keeps the earlier page).
C15_LongestIsEarliestMaximum ==
    /\ [](/\ LONGEST_PAGE_WORDS = MaxWordcount
          /\ IF DOMAIN PAGE_WORDCOUNT = {} THEN LONGEST_PAGE_URL = None
             ELSE /\ LONGEST_PAGE_URL \in DOMAIN PAGE_WORDCOUNT
                  /\ PAGE_WORDCOUNT[LONGEST_PAGE_URL] = MaxWordcount)
    /\ [][(call'.op = "scraper" /\ LONGEST_PAGE_URL' # LONGEST_PAGE_URL)
            => /\ LONGEST_PAGE_URL' \notin DOMAIN PAGE_WORDCOUNT
               /\ LONGEST_PAGE_URL' \in DOMAIN PAGE_WORDCOUNT'
               /\ \A u \in DOMAIN PAGE_WORDCOUNT :
                      PAGE_WORDCOUNT[u] < PAGE_WORDCOUNT'[LONGEST_PAGE_URL']]_vars

\* Page5 was recorded after Page1 with the same word count
C15_Witness ==
    /\ call.op = "scraper" /\ call.page = "P5" /\ call.end = "recorded"
    /\ DOMAIN PAGE_WORDCOUNT = {PageFacts["P1"].standard_url, PageFacts["P5"].standard_url}
    /\ PAGE_WORDCOUNT[PageFacts["P1"].standard_url] = PAGE_WORDCOUNT[PageFacts["P5"].standard_url]
    /\ LONGEST_PAGE_URL = PageFacts["P1"].standard_url

\* C16: when a statement inside the analysis of scraper() raises, scraper()
\* returns the valid links and every aggregate has the value it had before
\* the call.
C16_FailureLeavesAggregates ==
    [][\A id \in PageIds :
            (ScraperStepOn(id) /\ call'.end = "failed")
            => /\ ret' = PageFacts[id].valid_links
               /\ UNCHANGED <<SEEN_URLS, PAGE_WORDCOUNT, LONGEST_PAGE_URL, LONGEST_PAGE_WORDS,
                              GLOBAL_WORD_FREQ, SUBDOMAIN_PAGECOUNT, PATH_FAMILY_COUNT,
                              CONTENT_HASHES>>]_vars

\* the part of it that the handler of lines 192-193 provides
FailureReturnsValidLinks ==
    [][\A id \in PageIds :
            (ScraperStepOn(id) /\ call'.end = "failed") => ret' = PageFacts[id].valid_links]_vars

(***************************************************************************)
(* Properties of the snapshot writes                                       *)
(***************************************************************************)
\* C17: over the _save_stats() calls that scraper() issues within a process,
\* a call that opens the snapshot file comes at least throttle_seconds (2)
\* after the one before it, whose time _last_save_ts holds; and a call within
\* the interval (line 152, 167 or 190: the page was sparse, a duplicate or
\* recorded) leaves the file and
\* _last_save_ts alone and adds no change to the aggregates beyond those of
\* the analysis.
C17_WritesThrottled ==
    [][\A id \in PageIds :
            ScraperStepOn(id) =>
                /\ (call'.wrote \/ stats_file' # stats_file \/ last_save_ts' # last_save_ts)
                       => /\ now - last_save_ts >= DefaultThrottle
                          /\ last_save_ts' = now
                /\ (now - last_save_ts < DefaultThrottle
                       /\ call'.end \in {"sparse", "duplicate", "recorded"})
                       => \E a \in {Analyze(Globals, Page(id), PageFacts[id])} :
                              a.save => /\ ~call'.wrote
                                        /\ stats_file' = stats_file
                                        /\ last_save_ts' = last_save_ts
                                        /\ SetGlobals(a.G)]_vars

\* a page was recorded one second after a snapshot was written, and the
\* snapshot on disk is still the earlier one
C17_Witness ==
    /\ call.op = "scraper" /\ call.n = 2 /\ call.end = "recorded" /\ ~call.wrote
    /\ last_save_ts >= StartTime
    /\ now - last_save_ts = 1
    /\ saved.valid /\ saved.G # Globals

\* a second snapshot was written two seconds after the first
C17_WitnessSecondWrite ==
    /\ call.op = "scraper" /\ call.n = 2 /\ call.wrote
    /\ last_save_ts = StartTime + DefaultThrottle

(***************************************************************************)
(* More properties of is_valid                                             *)
(***************************************************************************)
\* C18: is_valid never raises: on every URL that urlparse fails to parse,
\* is_valid returns False.
C18_ParseErrorGivesFalse ==
    ("valid" \in url_out.done /\ ~urlparse(url_in.u).ok) => url_out.valid = "False"

\* a segment of four digits, a hyphen and two digits
IsYearMonth(seg) ==
    /\ Len(seg) = 7
    /\ AllDigits(SubSeq(seg, 1, 4))
    /\ CharAt(seg, 5) = "-"
    /\ AllDigits(SubSeq(seg, 6, 7))

\* the path has a YYYY-MM segment, or a YYYY segment followed by an MM segment
DateStamped(path) ==
    LET s == Segments(path)
    IN  \/ \E i \in DOMAIN s : IsYearMonth(s[i])
        \/ \E i \in DOMAIN s :
               /\ i < Len(s)
               /\ Len(s[i]) = 4 /\ AllDigits(s[i])
               /\ Len(s[i + 1]) = 2 /\ AllDigits(s[i + 1])

\* C19: is_valid returns False for every URL whose path has a date-stamped
\* pattern, a YYYY-MM segment or consecutive YYYY and MM segments, wherever
\* in the path it occurs.
C19_DateStampedRejected ==
    (IsValidReturned /\ DateStamped(url_in.c.path)) => url_out.valid = "False"

\* the same for a YYYY-MM segment that ends the path
TrailingYearMonthRejected ==
    (IsValidReturned /\ DateStamped(url_in.c.path) /\ EndsWithYearMonth(url_in.c.path))
        => url_out.valid = "False"

(***************************************************************************)
(* Properties of the subdomain counts                                      *)
(***************************************************************************)
\* the host is uci.edu or a dot-boundary subdomain of it
WithinTopDomain(host) ==
    LET h == Labels(host)
    IN  Len(h) >= 2 /\ SubSeq(h, Len(h) - 1, Len(h)) = <<"uci", "edu">>

\* the number of recorded pages on the host
PagesOnHost(host) ==
    Cardinality({u \in DOMAIN PAGE_WORDCOUNT : Hostname(urlparse(u)) = host})

\* the keys of SUBDOMAIN_PAGECOUNT count the recorded pages of their hosts
CountsMatchPages ==
    \A h \in DOMAIN SUBDOMAIN_PAGECOUNT : SUBDOMAIN_PAGECOUNT[h] = PagesOnHost(h)

\* C20: after any sequence of scraper() calls from the empty state every key
\* of SUBDOMAIN_PAGECOUNT is a host within uci.edu, uci.edu itself or a
\* dot-boundary subdomain, its count is the number of PAGE_WORDCOUNT entries
\* on that host, and no scraper() call decreases a count.
C20_SubdomainCounts ==
    /\ [](CountsMatchPages /\ \A h \in DOMAIN SUBDOMAIN_PAGECOUNT : WithinTopDomain(h))
    /\ [][call'.op = "scraper" =>
            \A h \in DOMAIN SUBDOMAIN_PAGECOUNT :
                /\ h \in DOMAIN SUBDOMAIN_PAGECOUNT'
                /\ SUBDOMAIN_PAGECOUNT'[h] >= SUBDOMAIN_PAGECOUNT[h]]_vars

\* the same without the membership in uci.edu
SubdomainCountsMonotone ==
    /\ []CountsMatchPages
    /\ [][call'.op = "scraper" =>
            \A h \in DOMAIN SUBDOMAIN_PAGECOUNT :
                /\ h \in DOMAIN SUBDOMAIN_PAGECOUNT'
                /\ SUBDOMAIN_PAGECOUNT'[h] >= SUBDOMAIN_PAGECOUNT[h]]_vars

====
